---- MODULE Spec2Model ----
(***************************************************************************)
(* Orchestration engine of echo9llama (src/orchestration/engine.go):       *)
(* the Agent Store, the single-task executor ExecuteTask with its          *)
(* dispatch by task type, the agent state recorder updateAgentState, and   *)
(* the multi-task executor ExecuteTasks in its sequential and concurrent   *)
(* forms.                                                                  *)
(*                                                                         *)
(* Go values are modelled as follows.  A *Agent and a *Task are handles    *)
(* into the heaps agentObj and taskObj.  A Go string that ends up in an    *)
(* interface{} value or in an output is a Text, a sequence of strings      *)
(* (the pieces fmt.Sprintf glues together); the empty string is <<>>.      *)
(* An error is its text, "" standing for a nil error.  A time.Time is a    *)
(* natural number, 0 being the zero time.                                  *)
(***************************************************************************)
EXTENDS Naturals, Sequences, FiniteSets, TLC

VARIABLES
    now,        \* the clock time.Now() reads
    uuidCount,  \* how many uuid.New() values were handed out
    agents,     \* e.agents: ID -> *Agent (a handle), NoPtr when absent
    agentObj,   \* the heap of Agent objects
    taskObj,    \* the heap of Task objects
    tools,      \* e.tools: the registered tool names
    plugins,    \* e.plugins.plugins: the registered plugin names
    call,       \* the ExecuteTasks call in progress
    wk,         \* the goroutines of a concurrent ExecuteTasks
    crashed,    \* the process died (a panic, or the runtime's fatal error)
    steps,      \* how many API calls were made
    execCount,  \* ghost: how often ExecuteTask was entered for each task
    history,    \* ghost: per agent object, every item updateAgentState recorded
    last,       \* ghost: the API call that returned last, with what it returned
    conversations, \* e.conversations: ID -> Conversation, NoConversation when absent
    deleg,      \* the detached goroutines of processTaskMessage
    mu,         \* e.mu, the engine's sync.RWMutex
    th,         \* threads calling the engine at once, each inside one call
    sendLog,    \* ghost: the order SendMessage calls were issued and completed in
    flow,       \* the MultiStepWorkflow call in progress
    route,      \* a selectBestModel call: its arguments and what it returned
    cw,         \* the ExecuteConversationWorkflow call in progress
    tasks,      \* e.tasks: ID -> *Task (a handle into taskObj), 0 when absent
    orch        \* the OrchestrateTasks call in progress

convVars == <<conversations, deleg>>
lockVars == <<mu, th, sendLog>>
flowVars == <<flow, route, cw, tasks, orch>>

vars == <<now, uuidCount, agents, agentObj, taskObj, tools, plugins, call, wk,
          crashed, steps, execCount, history, last, convVars, lockVars, flowVars>>

----------------------------------------------------------------------------
(* Bounds of the model *)

MaxTime == 3
MaxSteps == 3
MaxTasks == 3

(* Program constants *)

ContextLimit == 10

----------------------------------------------------------------------------
(* Values *)

Ptrs == {"p1", "p2"}
NoPtr == "nil"
GivenIDs == {"a1"}
UUIDs == <<"uuid-1", "uuid-2", "uuid-3", "uuid-4", "uuid-5", "uuid-6", "uuid-7",
           "uuid-8", "uuid-9", "uuid-10", "uuid-11", "uuid-12", "uuid-13", "uuid-14">>
IDs == GivenIDs \cup {UUIDs[i] : i \in 1..Len(UUIDs)}

AgentTypeGeneral == "general"
AgentTypeSpecialist == "specialist"
AgentTypeOrchestrator == "orchestrator"
AgentTypeReflective == "reflective"

TaskStatusPending == "pending"
TaskStatusRunning == "running"
TaskStatusCompleted == "completed"
TaskStatusFailed == "failed"

TaskTypeGenerate == "generate"
TaskTypeChat == "chat"
TaskTypeEmbed == "embed"
TaskTypeCustom == "custom"
TaskTypeTool == "tool"
TaskTypeReflect == "reflect"
TaskTypePlugin == "plugin"

NumStr == <<"0", "1", "2", "3", "4", "5", "6", "7", "8", "9", "10", "11", "12">>

(* agent.State: a nil pointer, or an AgentState whose Memory map and       *)
(* Context slice may each be nil (the zero value &AgentState{}).           *)
NilState ==
    [isNil |-> TRUE, MemoryNil |-> TRUE, Memory |-> {},
     ContextNil |-> TRUE, Context |-> <<>>]
ZeroState ==
    [isNil |-> FALSE, MemoryNil |-> TRUE, Memory |-> {},
     ContextNil |-> TRUE, Context |-> <<>>]
MadeState ==
    [isNil |-> FALSE, MemoryNil |-> FALSE, Memory |-> {},
     ContextNil |-> FALSE, Context |-> <<>>]

Agent(id, name, type, state, models) ==
    [ID |-> id, Name |-> name, Type |-> type, State |-> state,
     Models |-> models, CreatedAt |-> 0, UpdatedAt |-> 0]

Task(type, input, model, tool, plugin) ==
    [Type |-> type, Input |-> input, Output |-> <<>>,
     Status |-> TaskStatusPending, ModelName |-> model,
     ToolName |-> tool, PluginName |-> plugin,
     CompletedAt |-> 0, Error |-> ""]

NilResult == [isNil |-> TRUE, TaskID |-> 0, Output |-> <<>>, ModelUsed |-> ""]
TaskResult(id, output, model) ==
    [isNil |-> FALSE, TaskID |-> id, Output |-> output, ModelUsed |-> model]

(* What the external collaborators may answer: the inference service, a    *)
(* tool's Call, a plugin's Execute.  err # "" is a failure; out is the     *)
(* streamed text (possibly empty) or the printed result.                   *)
ExtOutcomes ==
    {[err |-> "", out |-> <<"answer">>],
     [err |-> "", out |-> <<>>],
     [err |-> "backend error", out |-> <<>>],
     [err |-> "timeout", out |-> <<>>]}

----------------------------------------------------------------------------
(* Agent state recording *)

MapPut(m, k, v) == {e \in m : e[1] # k} \cup {<<k, v>>}

ContextItem(key, value) == [Key |-> key, Value |-> value]

(* engine.go 559-561: keep only the last ContextLimit items *)
TrimContext(ctx) ==
    IF Len(ctx) > ContextLimit
    THEN SubSeq(ctx, Len(ctx) - ContextLimit + 1, Len(ctx))
    ELSE ctx

(* engine.go 545: a write into a nil map panics *)
updatePanics(a) == ~a.State.isNil /\ a.State.MemoryNil

(* engine.go 538-546: the nil check and the Memory write *)
recordMemory(a, key, value) ==
    LET s == IF a.State.isNil THEN MadeState ELSE a.State
    IN  [a EXCEPT !.State = [s EXCEPT !.Memory = MapPut(s.Memory, key, value)]]

(* engine.go 556-561: the append to ctx, the slice read before, and the trim *)
recordContext(a, ctx, key, value) ==
    [a EXCEPT !.State.Context = TrimContext(Append(ctx, ContextItem(key, value))),
              !.State.ContextNil = FALSE]

(* engine.go 537-562, run without interruption *)
updateAgentState(a, key, value) ==
    LET b == recordMemory(a, key, value)
    IN  recordContext(b, b.State.Context, key, value)

(* engine.go 565-588 *)
performAgentReflection(a, input) ==
    LET n == Len(a.State.Context)
        recent == IF ~a.State.isNil /\ n > 0
                  THEN <<"Recent context includes", NumStr[n + 1]>>
                       \o (IF n >= 3 THEN <<"Pattern analysis">> ELSE <<>>)
                  ELSE <<>>
        clause == IF a.Type = AgentTypeReflective THEN <<"Advanced self-analysis">>
                  ELSE IF a.Type = AgentTypeOrchestrator THEN <<"Coordination patterns">>
                  ELSE IF a.Type = AgentTypeSpecialist THEN <<"Domain expertise">>
                  ELSE <<>>
    IN  <<"Agent", a.Name, "reflecting on">> \o input \o recent \o clause

----------------------------------------------------------------------------
(* Dispatch by task type.  Each execute*Task gives                         *)
(*   result, err : what the Go function returns                             *)
(*   rec, key, value : whether it calls updateAgentState, and with what    *)

NoRecord(result, err) ==
    [result |-> result, err |-> err, rec |-> FALSE, key |-> "", value |-> <<>>]
Record(result, key, value) ==
    [result |-> result, err |-> "", rec |-> TRUE, key |-> key, value |-> value]

(* A variant of effectiveModel with a fault seeded: the agent's first      *)
(* model wins over the task's                                              *)
effectiveModel_AgentFirst(t, a) ==
    IF Len(a.Models) > 0 THEN a.Models[1] ELSE t.ModelName

(* engine.go 285-292, 327-334, 371-378 *)
effectiveModel(t, a) ==
    IF t.ModelName = "" /\ Len(a.Models) > 0 THEN a.Models[1] ELSE t.ModelName

(* engine.go 284-323 *)
executeGenerateTask(tid, t, a, ext) ==
    IF effectiveModel(t, a) = ""
    THEN NoRecord(NilResult, "no model specified for generate task")
    ELSE IF ext.err # "" THEN NoRecord(NilResult, ext.err)
    ELSE NoRecord(TaskResult(tid, ext.out, effectiveModel(t, a)), "")

(* engine.go 326-367 *)
executeChatTask(tid, t, a, ext) ==
    IF effectiveModel(t, a) = ""
    THEN NoRecord(NilResult, "no model specified for chat task")
    ELSE IF ext.err # "" THEN NoRecord(NilResult, ext.err)
    ELSE NoRecord(TaskResult(tid, ext.out, effectiveModel(t, a)), "")

(* engine.go 370-398 *)
executeEmbedTask(tid, t, a, ext) ==
    IF effectiveModel(t, a) = ""
    THEN NoRecord(NilResult, "no model specified for embed task")
    ELSE IF ext.err # "" THEN NoRecord(NilResult, ext.err)
    ELSE NoRecord(TaskResult(tid, <<"Embedding generated with dimension">> \o ext.out,
                             effectiveModel(t, a)), "")

(* engine.go 401-414 *)
executeCustomTask(tid, t, a) ==
    Record(TaskResult(tid,
                      <<"Custom task", t.Type, "completed">>
                        \o (IF a.Type = AgentTypeReflective
                            THEN <<"(with self-reflection capabilities)">> ELSE <<>>),
                      ""),
           "custom_task", t.Input)

(* A variant of executeToolTask with a fault seeded: the tool's name is    *)
(* recorded on the agent before the registry is consulted                  *)
executeToolTask_RecordsFirst(tid, t, a, ext, registered) ==
    IF t.ToolName \in registered
    THEN IF ext.err # ""
         THEN NoRecord(NilResult, "tool call failed: " \o ext.err)
         ELSE Record(TaskResult(tid, <<"Tool", t.ToolName, "executed successfully:">> \o ext.out, ""),
                     "tool_use", <<t.ToolName>>)
    ELSE Record(TaskResult(tid, <<"Tool", t.ToolName, "not available">>, ""),
                "tool_use", <<t.ToolName>>)

(* engine.go 417-450 *)
executeToolTask(tid, t, a, ext, registered) ==
    IF t.ToolName \in registered
    THEN IF ext.err # ""
         THEN NoRecord(NilResult, "tool call failed: " \o ext.err)
         ELSE Record(TaskResult(tid, <<"Tool", t.ToolName, "executed successfully:">> \o ext.out, ""),
                     "tool_use", <<t.ToolName>>)
    ELSE NoRecord(TaskResult(tid, <<"Tool", t.ToolName, "not available">>, ""), "")

(* engine.go 453-463 *)
executeReflectTask(tid, t, a) ==
    Record(TaskResult(tid, performAgentReflection(a, t.Input), ""),
           "reflection", performAgentReflection(a, t.Input))

(* A variant of executePluginTask with a fault seeded: the plugin's name   *)
(* is recorded on the agent before Execute is called                       *)
executePluginTask_RecordsFirst(tid, t, a, ext, registered) ==
    IF t.PluginName \in registered
    THEN [Record(IF ext.err # "" THEN NilResult
                 ELSE TaskResult(tid, <<"Plugin", t.PluginName, "result:">> \o ext.out, ""),
                 "plugin_use", <<t.PluginName>>)
          EXCEPT !.err = IF ext.err # "" THEN "plugin execution failed: " \o ext.err
                         ELSE ""]
    ELSE NoRecord(TaskResult(tid, <<"Plugin", t.PluginName, "not found">>, ""), "")

(* engine.go 466-490 *)
executePluginTask(tid, t, a, ext, registered) ==
    IF t.PluginName \in registered
    THEN IF ext.err # ""
         THEN NoRecord(NilResult, "plugin execution failed: " \o ext.err)
         ELSE Record(TaskResult(tid, <<"Plugin", t.PluginName, "result:">> \o ext.out, ""),
                     "plugin_use", <<t.PluginName>>)
    ELSE NoRecord(TaskResult(tid, <<"Plugin", t.PluginName, "not found">>, ""), "")

(* engine.go 136-151: the switch on task.Type *)
Dispatch(tid, t, a, ext, regTools, regPlugins) ==
    CASE t.Type = TaskTypeGenerate -> executeGenerateTask(tid, t, a, ext)
      [] t.Type = TaskTypeChat     -> executeChatTask(tid, t, a, ext)
      [] t.Type = TaskTypeEmbed    -> executeEmbedTask(tid, t, a, ext)
      [] t.Type = TaskTypeTool     -> executeToolTask(tid, t, a, ext, regTools)
      [] t.Type = TaskTypeReflect  -> executeReflectTask(tid, t, a)
      [] t.Type = TaskTypePlugin   -> executePluginTask(tid, t, a, ext, regPlugins)
      [] OTHER                     -> executeCustomTask(tid, t, a)

(* engine.go 131: the task as ExecuteTask marks it on entry *)
MarkRunning(t) == [t EXCEPT !.Status = TaskStatusRunning]

(* Variants of Settle with a fault seeded: one stamps CompletedAt on a     *)
(* failure too, one forgets to mark the failure                            *)
Settle_StampsFailure(t, d, at) ==
    IF d.err # ""
    THEN [t EXCEPT !.Status = TaskStatusFailed, !.Error = d.err, !.CompletedAt = at]
    ELSE [t EXCEPT !.Status = TaskStatusCompleted, !.CompletedAt = at,
                   !.Output = d.result.Output]

Settle_LeavesRunning(t, d, at) ==
    IF d.err # ""
    THEN [t EXCEPT !.Error = d.err]
    ELSE [t EXCEPT !.Status = TaskStatusCompleted, !.CompletedAt = at,
                   !.Output = d.result.Output]

(* engine.go 155-164: the task as ExecuteTask leaves it, given what the    *)
(* dispatch returned; at is time.Now()                                     *)
Settle(t, d, at) ==
    IF d.err # ""
    THEN [t EXCEPT !.Status = TaskStatusFailed, !.Error = d.err]
    ELSE [t EXCEPT !.Status = TaskStatusCompleted, !.CompletedAt = at,
                   !.Output = d.result.Output]

----------------------------------------------------------------------------
(* The engine's tables and the ghost record of the last call *)

Lookup(id) == IF id \in DOMAIN agents THEN agents[id] ELSE NoPtr

ZeroTask == Task("", <<>>, "", "", "")

(* An ExecuteTask or ExecuteTasks call: its arguments, its locals (i,      *)
(* results, firstError), what it returned (ret, retErr), and as ghosts the *)
(* tasks as they were at the call and the order the tasks finished in      *)
IdleCall ==
    [mode |-> "idle", sequential |-> FALSE, n |-> 0, agent |-> NoPtr, i |-> 0,
     results |-> <<>>, firstError |-> "", ret |-> <<>>, retErr |-> "",
     before |-> <<>>, order |-> <<>>]

ZeroAgent == Agent("", "", "", NilState, <<>>)

ConversationStatusActive == "active"
ConversationStatusClosed == "closed"

MessageTypeRequest == "request"
MessageTypeResponse == "response"
MessageTypeTask == "task"

(* A Message.  Its Context map has the keys the engine reads and writes:   *)
(* task_type, task_id, original_message_id, "" when the key is absent      *)
Message(id, from, to, content, type, taskType) ==
    [ID |-> id, FromAgentID |-> from, ToAgentID |-> to, Content |-> content,
     Type |-> type,
     Context |-> [task_type |-> taskType, task_id |-> "", original_message_id |-> ""],
     Timestamp |-> 0]

ZeroMessage == Message("", "", "", <<>>, "", "")

(* engine.go 727-736 *)
Conversation(id, participants, topic, at) ==
    [exists |-> TRUE, ID |-> id, Participants |-> participants, Messages |-> <<>>,
     Status |-> ConversationStatusActive, Topic |-> topic,
     CreatedAt |-> at, UpdatedAt |-> at]

NoConversation ==
    [exists |-> FALSE, ID |-> "", Participants |-> <<>>, Messages |-> <<>>,
     Status |-> "", Topic |-> "", CreatedAt |-> 0, UpdatedAt |-> 0]

(* The call that returned last: its name, its arguments (agent handle p,   *)
(* ID id, task handle t, participant IDs ids, message msg), what it        *)
(* returned (result, err), and the task (pre) and the agent object (was)   *)
(* as they were when it was called                                         *)
Returned(op, p, id, t, result, err, pre) ==
    [op |-> op, agent |-> p, id |-> id, task |-> t, result |-> result,
     err |-> err, pre |-> pre, was |-> IF p \in Ptrs THEN agentObj[p] ELSE ZeroAgent,
     ids |-> <<>>, msg |-> ZeroMessage]

NoLast == Returned("none", NoPtr, "", 0, NilResult, "", ZeroTask)

(* The Agent and Task literals the callers build before they call the engine *)
CallerAgents ==
    [p1 : {Agent(id, "alpha", "", st, <<"llama2">>) :
              id \in {"", "a1"}, st \in {NilState, ZeroState}},
     p2 : {Agent("a1", "beta", AgentTypeReflective, st, <<>>) :
              st \in {NilState, ZeroState}}]

CallerTasks ==
    {Task(TaskTypeGenerate, <<"in">>, "", "", ""),
     Task(TaskTypeChat, <<"in">>, "m1", "", ""),
     Task(TaskTypeEmbed, <<"in">>, "", "", ""),
     Task(TaskTypeTool, <<"in">>, "", "calculator", ""),
     Task(TaskTypeReflect, <<"in">>, "", "", ""),
     Task(TaskTypePlugin, <<"in">>, "", "", "data_analysis"),
     Task(TaskTypeCustom, <<"in">>, "", "", ""),
     Task("other", <<"in">>, "", "", "")}

ToolNames == {"calculator"}
PluginNames == {"data_analysis"}

----------------------------------------------------------------------------
(* Agent Store *)

(* A variant of Exists with a fault seeded: every ID passes for stored *)
Exists_Always(id) == TRUE

(* engine.go 78-79, 104, 119: _, exists := e.agents[id] *)
Exists(id) == Lookup(id) # NoPtr

(* A variant of deleteKey with a fault seeded: the entry stays *)
deleteKey_Keeps(tbl, id) == tbl

(* engine.go 123: delete(e.agents, id) *)
deleteKey(tbl, id) == [tbl EXCEPT ![id] = NoPtr]

(* engine.go 74-84 *)
GetAgent(id) ==
    IF ~Exists(id)
    THEN [agent |-> NoPtr, err |-> "agent not found: " \o id]
    ELSE [agent |-> Lookup(id), err |-> ""]

(* engine.go 87-97 *)
ListAgents == {agents[id] : id \in {i \in DOMAIN agents : agents[i] # NoPtr}}

(* A variant of Created with a fault seeded: Type is left as given *)
Created_KeepsType(a, uuid, c, u) ==
    [a EXCEPT !.ID = IF a.ID = "" THEN uuid ELSE a.ID,
              !.State = IF a.State.isNil THEN MadeState ELSE a.State,
              !.CreatedAt = c,
              !.UpdatedAt = u]

(* engine.go 45-66: the agent object as CreateAgent fills it in; uuid is   *)
(* uuid.New(), c and u are the two readings of time.Now()                  *)
Created(a, uuid, c, u) ==
    [a EXCEPT !.ID = IF a.ID = "" THEN uuid ELSE a.ID,
              !.State = IF a.State.isNil THEN MadeState ELSE a.State,
              !.Type = IF a.Type = "" THEN AgentTypeGeneral ELSE a.Type,
              !.CreatedAt = c,
              !.UpdatedAt = u]

(* A variant of storeAgent with a fault seeded: an ID that is taken keeps   *)
(* its agent                                                               *)
storeAgent_KeepsFirst(tbl, id, p) ==
    IF tbl[id] # NoPtr THEN tbl ELSE [tbl EXCEPT ![id] = p]

(* engine.go 68: e.agents[agent.ID] = agent *)
storeAgent(tbl, id, p) == [tbl EXCEPT ![id] = p]

(* engine.go 41-71 *)
CreateAgent(p) ==
    /\ ~crashed /\ steps < MaxSteps
    /\ uuidCount < Len(UUIDs)
    /\ \E d \in 0..1 :
        /\ now + d <= MaxTime
        /\ LET a == Created(agentObj[p], UUIDs[uuidCount + 1], now, now + d)
           IN  /\ agentObj' = [agentObj EXCEPT ![p] = a]
               /\ agents' = storeAgent(agents, a.ID, p)
               /\ last' = Returned("CreateAgent", p, a.ID, 0, NilResult, "", ZeroTask)
        /\ now' = now + d
    /\ uuidCount' = IF agentObj[p].ID = "" THEN uuidCount + 1 ELSE uuidCount
    /\ steps' = steps + 1
    /\ UNCHANGED <<taskObj, tools, plugins, call, wk, crashed, execCount, history>>
    /\ UNCHANGED <<convVars, lockVars, flowVars>>

(* engine.go 74-84 as a call of a caller *)
GetAgentCall(id) ==
    /\ ~crashed /\ steps < MaxSteps
    /\ last' = Returned("GetAgent", GetAgent(id).agent, id, 0, NilResult,
                        GetAgent(id).err, ZeroTask)
    /\ steps' = steps + 1
    /\ UNCHANGED <<now, uuidCount, agents, agentObj, taskObj, tools, plugins, call,
                   wk, crashed, execCount, history>>
    /\ UNCHANGED <<convVars, lockVars, flowVars>>

(* engine.go 100-112 *)
UpdateAgent(p) ==
    /\ ~crashed /\ steps < MaxSteps
    /\ LET id == agentObj[p].ID
       IN  IF ~Exists(id)
           THEN /\ last' = Returned("UpdateAgent", p, id, 0, NilResult,
                                    "agent not found: " \o id, ZeroTask)
                /\ UNCHANGED <<agentObj, agents>>
           ELSE /\ agentObj' = [agentObj EXCEPT ![p].UpdatedAt = now]
                /\ agents' = [agents EXCEPT ![id] = p]
                /\ last' = Returned("UpdateAgent", p, id, 0, NilResult, "", ZeroTask)
    /\ steps' = steps + 1
    /\ UNCHANGED <<now, uuidCount, taskObj, tools, plugins, call, wk, crashed,
                   execCount, history>>
    /\ UNCHANGED <<convVars, lockVars, flowVars>>

(* engine.go 115-126 *)
DeleteAgent(id) ==
    /\ ~crashed /\ steps < MaxSteps
    /\ IF ~Exists(id)
       THEN /\ last' = Returned("DeleteAgent", NoPtr, id, 0, NilResult,
                                "agent not found: " \o id, ZeroTask)
            /\ UNCHANGED agents
       ELSE /\ agents' = deleteKey(agents, id)
            /\ last' = Returned("DeleteAgent", NoPtr, id, 0, NilResult, "", ZeroTask)
    /\ steps' = steps + 1
    /\ UNCHANGED <<now, uuidCount, agentObj, taskObj, tools, plugins, call, wk,
                   crashed, execCount, history>>
    /\ UNCHANGED <<convVars, lockVars, flowVars>>

(* engine.go 495-500 *)
RegisterTool(name) ==
    /\ ~crashed /\ steps < MaxSteps
    /\ tools' = tools \cup {name}
    /\ steps' = steps + 1
    /\ last' = Returned("RegisterTool", NoPtr, name, 0, NilResult, "", ZeroTask)
    /\ UNCHANGED <<now, uuidCount, agents, agentObj, taskObj, plugins, call, wk,
                   crashed, execCount, history>>
    /\ UNCHANGED <<convVars, lockVars, flowVars>>

(* engine.go 503-508 *)
RegisterPlugin(name) ==
    /\ ~crashed /\ steps < MaxSteps
    /\ plugins' = plugins \cup {name}
    /\ steps' = steps + 1
    /\ last' = Returned("RegisterPlugin", NoPtr, name, 0, NilResult, "", ZeroTask)
    /\ UNCHANGED <<now, uuidCount, agents, agentObj, taskObj, tools, call, wk,
                   crashed, execCount, history>>
    /\ UNCHANGED <<convVars, lockVars, flowVars>>

(* The clock moves between calls *)
Tick ==
    /\ ~crashed /\ now < MaxTime
    /\ now' = now + 1
    /\ UNCHANGED <<uuidCount, agents, agentObj, taskObj, tools, plugins, call, wk,
                   crashed, steps, execCount, history, last>>
    /\ UNCHANGED <<convVars, lockVars, flowVars>>

----------------------------------------------------------------------------
(* ExecuteTask *)

(* engine.go 136-172: the dispatch and what follows it, for the task t     *)
(* that line 131 left as `run` and that was `pre` before the call.  A      *)
(* dispatch that records agent state on an agent whose Memory map is nil   *)
(* panics inside updateAgentState (engine.go 545): the call never returns  *)
(* and the task stays as line 131 marked it.                               *)
FinishTask(t, run, p, pre) ==
    \E ext \in ExtOutcomes :
        LET a == agentObj[p]
            d == Dispatch(t, run, a, ext, tools, plugins)
        IN  IF d.rec /\ updatePanics(a)
            THEN /\ taskObj' = [taskObj EXCEPT ![t] = run]
                 /\ crashed' = TRUE
                 /\ UNCHANGED <<agentObj, history, last>>
            ELSE /\ taskObj' = [taskObj EXCEPT ![t] = Settle(run, d, now)]
                 /\ agentObj' = IF d.rec
                                THEN [agentObj EXCEPT ![p] = updateAgentState(a, d.key, d.value)]
                                ELSE agentObj
                 /\ history' = IF d.rec
                               THEN [history EXCEPT ![p] = Append(@, ContextItem(d.key, d.value))]
                               ELSE history
                 /\ last' = Returned("ExecuteTask", p, a.ID, t,
                                     IF d.err # "" THEN NilResult ELSE d.result,
                                     d.err, pre)
                 /\ UNCHANGED crashed

(* engine.go 129-131: a caller's ExecuteTask(ctx, task, agent) marks the   *)
(* task running, then dispatches; the dispatch may block on the inference  *)
(* service, a tool or a plugin                                             *)
ExecuteTaskEnter(t, p) ==
    /\ ~crashed /\ steps < MaxSteps
    /\ call.mode = "idle"
    /\ taskObj' = [taskObj EXCEPT ![t] = MarkRunning(@)]
    /\ execCount' = [execCount EXCEPT ![t] = @ + 1]
    /\ call' = [IdleCall EXCEPT !.mode = "exec", !.i = t, !.agent = p,
                                !.before = <<taskObj[t]>>]
    /\ steps' = steps + 1
    /\ UNCHANGED <<now, uuidCount, agents, agentObj, tools, plugins, wk, crashed,
                   history, last>>
    /\ UNCHANGED <<convVars, lockVars, flowVars>>

(* engine.go 136-172: the dispatch answers and ExecuteTask returns *)
ExecuteTaskReturn ==
    /\ ~crashed
    /\ call.mode = "exec"
    /\ FinishTask(call.i, taskObj[call.i], call.agent, call.before[1])
    /\ call' = IF crashed' THEN call ELSE IdleCall
    /\ UNCHANGED <<now, uuidCount, agents, tools, plugins, wk, steps, execCount>>
    /\ UNCHANGED <<convVars, lockVars, flowVars>>

(* engine.go 129-172 as one step of a thread nobody interleaves with *)
RunTask(t, p) ==
    /\ FinishTask(t, MarkRunning(taskObj[t]), p, taskObj[t])
    /\ execCount' = [execCount EXCEPT ![t] = @ + 1]

----------------------------------------------------------------------------
(* ExecuteTasks: the tasks are taskObj[1..n] in list order *)

(* engine.go 176 *)
ExecuteTasksCall(p, sequential) ==
    /\ ~crashed
    /\ call.mode = "idle"
    /\ call' = [IdleCall EXCEPT !.mode = IF sequential THEN "seq" ELSE "conc",
                                !.sequential = sequential,
                                !.n = Len(taskObj),
                                !.agent = p,
                                !.results = [k \in 1..Len(taskObj) |-> NilResult],
                                !.before = taskObj]
    /\ wk' = [k \in 1..Len(taskObj) |->
                [pc |-> "unborn", d |-> NoRecord(NilResult, ""), ctx |-> <<>>]]
    /\ UNCHANGED <<now, uuidCount, agents, agentObj, taskObj, tools, plugins,
                   crashed, steps, execCount, history, last>>
    /\ UNCHANGED <<convVars, lockVars, flowVars>>

(* A variant of SeqAdvance with a fault seeded: the loop goes on after a   *)
(* failure                                                                 *)
SeqAdvance_KeepsGoing(c, result, err) ==
    [c EXCEPT !.results[c.i + 1] = result, !.i = c.i + 1,
              !.order = Append(@, c.i + 1)]

(* engine.go 180-184: the call after ExecuteTask on tasks[c.i] returned    *)
(* (result, err)                                                           *)
SeqAdvance(c, result, err) ==
    IF err # ""
    THEN [c EXCEPT !.mode = "returned", !.ret = SubSeq(c.results, 1, c.i),
                   !.retErr = err, !.order = Append(@, c.i + 1)]
    ELSE [c EXCEPT !.results[c.i + 1] = result, !.i = c.i + 1,
                   !.order = Append(@, c.i + 1)]

(* engine.go 179-185: one round of the sequential loop *)
SeqStep ==
    /\ ~crashed
    /\ call.mode = "seq" /\ call.i < call.n
    /\ RunTask(call.i + 1, call.agent)
    /\ call' = IF crashed' THEN call ELSE SeqAdvance(call, last'.result, last'.err)
    /\ UNCHANGED <<now, uuidCount, agents, tools, plugins, wk, steps>>
    /\ UNCHANGED <<convVars, lockVars, flowVars>>

(* engine.go 215: the sequential loop ran to its end *)
SeqReturn ==
    /\ ~crashed
    /\ call.mode = "seq" /\ call.i = call.n
    /\ call' = [call EXCEPT !.mode = "returned", !.ret = call.results, !.retErr = ""]
    /\ UNCHANGED <<now, uuidCount, agents, agentObj, taskObj, tools, plugins, wk,
                   crashed, steps, execCount, history, last>>
    /\ UNCHANGED <<convVars, lockVars, flowVars>>

(* engine.go 191-206: one round of the loop that starts the goroutines *)
Spawn ==
    /\ ~crashed
    /\ call.mode = "conc" /\ call.i < call.n
    /\ wk' = [wk EXCEPT ![call.i + 1].pc = "start"]
    /\ call' = [call EXCEPT !.i = call.i + 1]
    /\ UNCHANGED <<now, uuidCount, agents, agentObj, taskObj, tools, plugins,
                   crashed, steps, execCount, history, last>>
    /\ UNCHANGED <<convVars, lockVars, flowVars>>

(* engine.go 195, 131: goroutine k enters ExecuteTask *)
WEnter(k) ==
    /\ ~crashed
    /\ wk[k].pc = "start"
    /\ taskObj' = [taskObj EXCEPT ![k] = MarkRunning(@)]
    /\ execCount' = [execCount EXCEPT ![k] = @ + 1]
    /\ wk' = [wk EXCEPT ![k].pc = "dispatch"]
    /\ UNCHANGED <<now, uuidCount, agents, agentObj, tools, plugins, call,
                   crashed, steps, history, last>>
    /\ UNCHANGED <<convVars, lockVars, flowVars>>

(* engine.go 136-151: goroutine k dispatches.  A dispatch that records     *)
(* agent state gets as far as the Memory write of updateAgentState (538-   *)
(* 546) and the read of the Context slice it will append to (556): no lock *)
(* is held, and the other goroutines run between that read and the write.  *)
WDispatch(k) ==
    /\ ~crashed
    /\ wk[k].pc = "dispatch"
    /\ \E ext \in ExtOutcomes :
        LET a == agentObj[call.agent]
            d == Dispatch(k, taskObj[k], a, ext, tools, plugins)
        IN  IF d.rec
            THEN IF updatePanics(a)
                 THEN /\ crashed' = TRUE
                      /\ UNCHANGED <<agentObj, wk>>
                 ELSE /\ agentObj' = [agentObj EXCEPT
                                        ![call.agent] = recordMemory(a, d.key, d.value)]
                      /\ wk' = [wk EXCEPT ![k] =
                                  [pc |-> "append", d |-> d,
                                   ctx |-> recordMemory(a, d.key, d.value).State.Context]]
                      /\ UNCHANGED crashed
            ELSE /\ wk' = [wk EXCEPT ![k] = [pc |-> "settle", d |-> d, ctx |-> <<>>]]
                 /\ UNCHANGED <<agentObj, crashed>>
    /\ UNCHANGED <<now, uuidCount, agents, taskObj, tools, plugins, call, steps,
                   execCount, history, last>>
    /\ UNCHANGED <<convVars, lockVars, flowVars>>

(* engine.go 556-561: goroutine k writes the Context slice it appended to *)
WAppend(k) ==
    /\ ~crashed
    /\ wk[k].pc = "append"
    /\ agentObj' = [agentObj EXCEPT ![call.agent] =
                      recordContext(@, wk[k].ctx, wk[k].d.key, wk[k].d.value)]
    /\ history' = [history EXCEPT ![call.agent] =
                      Append(@, ContextItem(wk[k].d.key, wk[k].d.value))]
    /\ wk' = [wk EXCEPT ![k].pc = "settle"]
    /\ UNCHANGED <<now, uuidCount, agents, taskObj, tools, plugins, call, crashed,
                   steps, execCount, last>>
    /\ UNCHANGED <<convVars, lockVars, flowVars>>

(* engine.go 153-171: goroutine k's ExecuteTask returns *)
WSettle(k) ==
    /\ ~crashed
    /\ wk[k].pc = "settle"
    /\ taskObj' = [taskObj EXCEPT ![k] = Settle(@, wk[k].d, now)]
    /\ wk' = [wk EXCEPT ![k].pc = "record"]
    /\ UNCHANGED <<now, uuidCount, agents, agentObj, tools, plugins, call, crashed,
                   steps, execCount, history, last>>
    /\ UNCHANGED <<convVars, lockVars, flowVars>>

(* A variant of CaptureError with a fault seeded: the last error wins *)
CaptureError_LastWins(firstError, err) ==
    IF err # "" THEN err ELSE firstError

(* engine.go 198-200 *)
CaptureError(firstError, err) ==
    IF err # "" /\ firstError = "" THEN err ELSE firstError

(* A variant of StoreResult with a fault seeded: the goroutine indexes by  *)
(* the caller's loop variable instead of its own copy                      *)
StoreResult_SharedIndex(results, idx, result, i) ==
    IF ~result.isNil THEN [results EXCEPT ![i] = result] ELSE results

(* engine.go 193, 201-203: idx is the goroutine's own copy of the loop     *)
(* index, i the loop variable of the caller as it is now                   *)
StoreResult(results, idx, result, i) ==
    IF ~result.isNil THEN [results EXCEPT ![idx] = result] ELSE results

(* engine.go 197-204, 194: under the call's mutex goroutine k records its  *)
(* error and its result, then signals the wait group                       *)
WRecord(k) ==
    /\ ~crashed
    /\ wk[k].pc = "record"
    /\ call' = [call EXCEPT
                  !.firstError = CaptureError(@, wk[k].d.err),
                  !.results = StoreResult(@, k, IF wk[k].d.err # "" THEN NilResult
                                                 ELSE wk[k].d.result, call.i),
                  !.order = Append(@, k)]
    /\ wk' = [wk EXCEPT ![k].pc = "done"]
    /\ UNCHANGED <<now, uuidCount, agents, agentObj, taskObj, tools, plugins,
                   crashed, steps, execCount, history, last>>
    /\ UNCHANGED <<convVars, lockVars, flowVars>>

(* A variant of WaitDone with a fault seeded: the caller goes on as soon   *)
(* as an error is recorded                                                 *)
WaitDone_OrFirstError ==
    call.i = call.n /\ (call.firstError # "" \/ \A k \in 1..call.n : wk[k].pc = "done")

(* engine.go 208: wg.Wait() lets the caller go on *)
WaitDone == call.i = call.n /\ \A k \in 1..call.n : wk[k].pc = "done"

(* engine.go 208-215 *)
ConcReturn ==
    /\ ~crashed
    /\ call.mode = "conc"
    /\ WaitDone
    /\ call' = [call EXCEPT !.mode = "returned", !.ret = call.results,
                            !.retErr = call.firstError]
    /\ UNCHANGED <<now, uuidCount, agents, agentObj, taskObj, tools, plugins, wk,
                   crashed, steps, execCount, history, last>>
    /\ UNCHANGED <<convVars, lockVars, flowVars>>

(* engine.go 545 run by two goroutines at once: the Go runtime may detect  *)
(* the concurrent map writes and end the process with a fatal error        *)
ConcurrentMapWrites(k, j) ==
    /\ ~crashed
    /\ k # j
    /\ wk[k].pc = "dispatch" /\ wk[j].pc = "dispatch"
    /\ ~updatePanics(agentObj[call.agent])
    /\ \E e1 \in ExtOutcomes, e2 \in ExtOutcomes :
        /\ Dispatch(k, taskObj[k], agentObj[call.agent], e1, tools, plugins).rec
        /\ Dispatch(j, taskObj[j], agentObj[call.agent], e2, tools, plugins).rec
    /\ crashed' = TRUE
    /\ UNCHANGED <<now, uuidCount, agents, agentObj, taskObj, tools, plugins, call,
                   wk, steps, execCount, history, last>>
    /\ UNCHANGED <<convVars, lockVars, flowVars>>

----------------------------------------------------------------------------
(* Conversations *)

ConvLookup(id) == IF id \in DOMAIN conversations THEN conversations[id]
                  ELSE NoConversation

(* engine.go 805-815 *)
GetConversation(id) ==
    IF ~ConvLookup(id).exists
    THEN [conversation |-> NoConversation, err |-> "conversation not found: " \o id]
    ELSE [conversation |-> ConvLookup(id), err |-> ""]

(* A variant of recordAll with a fault seeded: only the first agent gets   *)
(* the entry                                                               *)
recordAll_HeadOnly(ao, ps, key, value) ==
    IF ps = <<>> THEN ao
    ELSE [ao EXCEPT ![Head(ps)] = updateAgentState(@, key, value)]

(* updateAgentState(agent, key, value) on the agent objects ps, in order *)
RECURSIVE recordAll(_, _, _, _)
recordAll(ao, ps, key, value) ==
    IF ps = <<>> THEN ao
    ELSE recordAll([ao EXCEPT ![Head(ps)] = updateAgentState(@, key, value)],
                   Tail(ps), key, value)

(* the ghost history of the same updates *)
RECURSIVE recordedAll(_, _, _, _)
recordedAll(h, ps, key, value) ==
    IF ps = <<>> THEN h
    ELSE recordedAll([h EXCEPT ![Head(ps)] = Append(@, ContextItem(key, value))],
                     Tail(ps), key, value)

(* the stored agents among ids, in order *)
RECURSIVE storedOf(_)
storedOf(ids) ==
    IF ids = <<>> THEN <<>>
    ELSE (IF Exists(Head(ids)) THEN <<agents[Head(ids)]>> ELSE <<>>) \o storedOf(Tail(ids))

anyPanics(ps) == \E i \in DOMAIN ps : updatePanics(agentObj[ps[i]])

(* A variant of firstMissing with a fault seeded: only the first           *)
(* participant is validated                                                *)
firstMissing_HeadOnly(participants) ==
    IF participants # <<>> /\ ~Exists(Head(participants)) THEN Head(participants)
    ELSE ""

(* engine.go 721-725: the first participant that is not in the Agent Store *)
firstMissing(participants) ==
    LET missing == {i \in DOMAIN participants : ~Exists(participants[i])}
    IN  IF missing = {} THEN ""
        ELSE participants[CHOOSE i \in missing : \A j \in missing : i <= j]

(* engine.go 880-887, 890: the Task processTaskMessage builds from the     *)
(* message, and the goroutine it starts for it                             *)
delegatedTask(m) ==
    Task(IF m.Context.task_type # "" THEN m.Context.task_type ELSE TaskTypeCustom,
         m.Content, "", "", "")

Delegation(t, taskID, p, cid, m) ==
    [pc |-> "start", task |-> t, taskID |-> taskID, agent |-> p, conv |-> cid,
     msg |-> m, d |-> NoRecord(NilResult, ""), ctx |-> <<>>, err |-> ""]

(* A variant of Delegates with a fault seeded: a message of any type to a   *)
(* stored agent starts a task                                              *)
Delegates_AnyType(m) ==
    /\ m.ToAgentID # ""
    /\ Exists(m.ToAgentID)

(* engine.go 863-870: processTaskMessage starts a task only for a target   *)
(* agent that is named and stored                                          *)
Delegates(m) ==
    /\ m.Type = MessageTypeTask
    /\ m.ToAgentID # ""
    /\ Exists(m.ToAgentID)

(* engine.go 863-870: the error processTaskMessage returns, "" for nil *)
processTaskError(m) ==
    IF m.ToAgentID = "" THEN "task message must specify target agent"
    ELSE IF ~Exists(m.ToAgentID) THEN "target agent not found: " \o m.ToAgentID
    ELSE ""

(* A variant of afterTaskMessage with a fault seeded: the error of         *)
(* processTaskMessage is returned to the caller                            *)
afterTaskMessage_Returns(m) ==
    IF m.Type = MessageTypeTask THEN processTaskError(m) ELSE ""

(* engine.go 793-801: SendMessage logs the error of processTaskMessage and *)
(* returns nil                                                             *)
afterTaskMessage(m) == ""

(* A variant of Accepts with a fault seeded: any conversation takes messages *)
Accepts_Any(c) == TRUE

(* engine.go 760 *)
Accepts(c) == c.Status = ConversationStatusActive

(* A variant of SenderKnown with a fault seeded: any sender passes *)
SenderKnown_Any(m) == TRUE

(* engine.go 765-766 *)
SenderKnown(m) == Exists(m.FromAgentID)

(* A variant of closed with a fault seeded: closing a closed conversation  *)
(* reopens it                                                              *)
closed_Toggles(c, at) ==
    [c EXCEPT !.Status = IF @ = ConversationStatusClosed THEN ConversationStatusActive
                         ELSE ConversationStatusClosed,
              !.UpdatedAt = at]

(* engine.go 846-847 *)
closed(c, at) == [c EXCEPT !.Status = ConversationStatusClosed, !.UpdatedAt = at]

(* A variant of appendMessage with a fault seeded: the message is put in   *)
(* front of the log                                                        *)
appendMessage_InFront(log, m) == <<m>> \o log

(* engine.go 779 *)
appendMessage(log, m) == Append(log, m)

(* engine.go 751-802: what SendMessage(conversationID, message) returns    *)
(* and leaves, before the engine's variables take it over; at is           *)
(* time.Now().  panics: updateAgentState wrote into a nil Memory map.      *)
sendMessage(cid, msg, at) ==
    LET c == ConvLookup(cid)
        fresh == msg.ID = ""
        m == [msg EXCEPT !.ID = IF fresh THEN UUIDs[uuidCount + 1] ELSE @,
                         !.Timestamp = IF @ = 0 THEN at ELSE @]
        used == IF fresh THEN 1 ELSE 0
        ps1 == storedOf(<<m.FromAgentID>>)
        ps2 == storedOf(<<m.ToAgentID>>)
        refused == [err |-> "", panics |-> FALSE, msg |-> msg,
                    conversations |-> conversations, agentObj |-> agentObj,
                    history |-> history, uuids |-> 0, tasks |-> <<>>, spawn |-> <<>>]
    IN  IF ~c.exists
        THEN [refused EXCEPT !.err = "conversation not found: " \o cid]
        ELSE IF ~Accepts(c)
        THEN [refused EXCEPT !.err = "conversation is not active: " \o c.Status]
        ELSE IF ~SenderKnown(m)
        THEN [refused EXCEPT !.err = "sender agent not found: " \o m.FromAgentID]
        ELSE [err |-> afterTaskMessage(m),
              panics |-> anyPanics(ps1 \o ps2),
              msg |-> m,
              conversations |-> [conversations EXCEPT ![cid].Messages = appendMessage(@, m),
                                                      ![cid].UpdatedAt = at],
              agentObj |-> recordAll(recordAll(agentObj, ps1, "message_sent", m.Content),
                                     ps2, "message_received", m.Content),
              history |-> recordedAll(recordedAll(history, ps1, "message_sent", m.Content),
                                      ps2, "message_received", m.Content),
              uuids |-> used + (IF Delegates(m) THEN 1 ELSE 0),
              tasks |-> IF Delegates(m) THEN <<delegatedTask(m)>> ELSE <<>>,
              spawn |-> IF Delegates(m)
                        THEN <<Delegation(Len(taskObj) + 1, UUIDs[uuidCount + used + 1],
                                          agents[m.ToAgentID], cid, m)>>
                        ELSE <<>>]

(* The engine takes over what sendMessage left; dl is the goroutine table  *)
(* the new goroutine, if any, is added to                                  *)
Deliver(r, dl) ==
    IF r.panics
    THEN /\ crashed' = TRUE
         /\ UNCHANGED <<conversations, agentObj, history, taskObj, execCount>>
         /\ deleg' = dl
    ELSE /\ conversations' = r.conversations
         /\ agentObj' = r.agentObj
         /\ history' = r.history
         /\ taskObj' = taskObj \o r.tasks
         /\ execCount' = execCount \o [i \in DOMAIN r.tasks |-> 0]
         /\ deleg' = dl \o r.spawn
         /\ UNCHANGED crashed

(* The callers of the Conversation Manager let time pass between calls:   *)
(* the call reads now, the call after it reads a later clock               *)
ClockMoves == now' = now + 1

(* engine.go 716-748 *)
StartConversation(participants, topic) ==
    /\ ~crashed /\ steps < MaxSteps
    /\ uuidCount < Len(UUIDs)
    /\ LET id == UUIDs[uuidCount + 1]
           ps == storedOf(participants)
           missing == firstMissing(participants)
       IN  IF missing # ""
           THEN /\ last' = [Returned("StartConversation", NoPtr, "", 0, NilResult,
                                     "agent not found: " \o missing, ZeroTask)
                               EXCEPT !.ids = participants]
                /\ UNCHANGED <<conversations, agentObj, history, uuidCount, crashed>>
           ELSE IF anyPanics(ps)
           THEN /\ crashed' = TRUE
                /\ UNCHANGED <<conversations, agentObj, history, uuidCount, last>>
           ELSE /\ conversations' = [conversations EXCEPT
                                       ![id] = Conversation(id, participants, topic, now)]
                /\ agentObj' = recordAll(agentObj, ps, "conversation_started", <<id>>)
                /\ history' = recordedAll(history, ps, "conversation_started", <<id>>)
                /\ uuidCount' = uuidCount + 1
                /\ last' = [Returned("StartConversation", NoPtr, id, 0, NilResult, "",
                                     ZeroTask) EXCEPT !.ids = participants]
                /\ UNCHANGED crashed
    /\ steps' = steps + 1
    /\ ClockMoves
    /\ UNCHANGED <<agents, taskObj, tools, plugins, call, wk, execCount, deleg,
                   lockVars, flowVars>>

(* engine.go 751-802, called by a caller *)
SendMessage(cid, msg) ==
    /\ ~crashed /\ steps < MaxSteps
    /\ uuidCount + 2 <= Len(UUIDs)
    /\ LET r == sendMessage(cid, msg, now)
       IN  /\ Deliver(r, deleg)
           /\ uuidCount' = IF r.panics THEN uuidCount ELSE uuidCount + r.uuids
           /\ last' = IF r.panics THEN last
                      ELSE [Returned("SendMessage", NoPtr, cid, 0, NilResult, r.err,
                                     ZeroTask) EXCEPT !.msg = r.msg]
    /\ steps' = steps + 1
    /\ ClockMoves
    /\ UNCHANGED <<agents, tools, plugins, call, wk, lockVars, flowVars>>

(* engine.go 837-859 *)
CloseConversation(cid) ==
    /\ ~crashed /\ steps < MaxSteps
    /\ LET c == ConvLookup(cid)
           ps == storedOf(c.Participants)
       IN  IF ~c.exists
           THEN /\ last' = Returned("CloseConversation", NoPtr, cid, 0, NilResult,
                                    "conversation not found: " \o cid, ZeroTask)
                /\ UNCHANGED <<conversations, agentObj, history, crashed>>
           ELSE IF anyPanics(ps)
           THEN /\ crashed' = TRUE
                /\ conversations' = [conversations EXCEPT ![cid] = closed(@, now)]
                /\ UNCHANGED <<agentObj, history, last>>
           ELSE /\ conversations' = [conversations EXCEPT ![cid] = closed(@, now)]
                /\ agentObj' = recordAll(agentObj, ps, "conversation_closed", <<cid>>)
                /\ history' = recordedAll(history, ps, "conversation_closed", <<cid>>)
                /\ last' = Returned("CloseConversation", NoPtr, cid, 0, NilResult, "",
                                    ZeroTask)
                /\ UNCHANGED crashed
    /\ steps' = steps + 1
    /\ ClockMoves
    /\ UNCHANGED <<uuidCount, agents, taskObj, tools, plugins, call, wk,
                   execCount, deleg, lockVars, flowVars>>

(* engine.go 890-891, 129-151: the goroutine of delegation k runs          *)
(* ExecuteTask on its own task, holding no lock: it marks the task running *)
(* and dispatches.  A dispatch that records agent state gets as far as the *)
(* Memory write of updateAgentState (538-546) and the read of the Context  *)
(* slice it will append to (556); calls that take e.mu run between that    *)
(* read and the write.                                                     *)
DExecute(k) ==
    /\ ~crashed
    /\ deleg[k].pc = "start"
    /\ \E ext \in ExtOutcomes :
        LET g == deleg[k]
            a == agentObj[g.agent]
            run == MarkRunning(taskObj[g.task])
            d == Dispatch(g.task, run, a, ext, tools, plugins)
        IN  IF d.rec /\ updatePanics(a)
            THEN /\ crashed' = TRUE
                 /\ UNCHANGED <<agentObj, deleg>>
            ELSE /\ agentObj' = IF d.rec
                                THEN [agentObj EXCEPT
                                        ![g.agent] = recordMemory(a, d.key, d.value)]
                                ELSE agentObj
                 /\ deleg' = [deleg EXCEPT
                                ![k].pc = "return", ![k].d = d,
                                ![k].ctx = recordMemory(a, d.key, d.value).State.Context]
                 /\ UNCHANGED crashed
    /\ taskObj' = [taskObj EXCEPT ![deleg[k].task] = MarkRunning(@)]
    /\ execCount' = [execCount EXCEPT ![deleg[k].task] = @ + 1]
    /\ UNCHANGED <<now, uuidCount, agents, tools, plugins, call, wk, steps,
                   history, last, conversations, lockVars, flowVars>>

(* engine.go 556-561, 153-171, 892-895: the goroutine writes the Context   *)
(* slice it appended to, ExecuteTask settles the task and returns, and the *)
(* goroutine logs a failure and ends, or goes on to respond                *)
DReturn(k) ==
    /\ ~crashed
    /\ deleg[k].pc = "return"
    /\ LET g == deleg[k]
       IN  /\ agentObj' = IF g.d.rec
                          THEN [agentObj EXCEPT ![g.agent] =
                                  recordContext(@, g.ctx, g.d.key, g.d.value)]
                          ELSE agentObj
           /\ history' = IF g.d.rec
                         THEN [history EXCEPT ![g.agent] =
                                 Append(@, ContextItem(g.d.key, g.d.value))]
                         ELSE history
           /\ taskObj' = [taskObj EXCEPT ![g.task] = Settle(@, g.d, now)]
           /\ deleg' = [deleg EXCEPT ![k].pc = IF g.d.err # "" THEN "done" ELSE "respond",
                                     ![k].err = g.d.err]
    /\ UNCHANGED <<now, uuidCount, agents, tools, plugins, call, wk, crashed, steps,
                   execCount, last, conversations, lockVars, flowVars>>

(* A variant of responseMessage with a fault seeded: the response goes out *)
(* in the direction of the delegation                                      *)
responseMessage_SameDirection(g, id, at) ==
    [ID |-> id, FromAgentID |-> g.msg.FromAgentID, ToAgentID |-> g.msg.ToAgentID,
     Content |-> g.d.result.Output, Type |-> MessageTypeResponse,
     Context |-> [task_type |-> "", task_id |-> g.taskID,
                  original_message_id |-> g.msg.ID],
     Timestamp |-> at]

(* engine.go 898-909 *)
responseMessage(g, id, at) ==
    [ID |-> id, FromAgentID |-> g.msg.ToAgentID, ToAgentID |-> g.msg.FromAgentID,
     Content |-> g.d.result.Output, Type |-> MessageTypeResponse,
     Context |-> [task_type |-> "", task_id |-> g.taskID,
                  original_message_id |-> g.msg.ID],
     Timestamp |-> at]

(* engine.go 897-914: the goroutine sends the response with SendMessage,   *)
(* which takes e.mu as any caller's does; a failure is logged              *)
respond(k) ==
    /\ ~crashed
    /\ deleg[k].pc = "respond"
    /\ uuidCount + 1 <= Len(UUIDs)
    /\ LET r == sendMessage(deleg[k].conv,
                            responseMessage(deleg[k], UUIDs[uuidCount + 1], now), now)
       IN  /\ Deliver(r, [deleg EXCEPT ![k].pc = "done", ![k].err = r.err])
           /\ UNCHANGED last
    /\ uuidCount' = uuidCount + 1
    /\ UNCHANGED <<now, agents, tools, plugins, call, wk, steps>>

(* the goroutine's SendMessage, taken as one step *)
DRespond(k) == respond(k) /\ UNCHANGED <<lockVars, flowVars>>

----------------------------------------------------------------------------
(* The engine's mutex e.mu and the tables it guards.  Threads call the     *)
(* engine at once; each call takes e.mu the way its code does, or not at   *)
(* all, and then reads or writes one table.                                *)

Threads == {"t1", "t2"}
NoThread == "none"

(* Per operation: how it takes e.mu (Lock, RLock, or not at all), the      *)
(* table it accesses and whether it writes it                              *)
Discipline ==
    [RegisterTool        |-> [lock |-> "Lock",  table |-> "tools",   write |-> TRUE],
     RegisterPlugin      |-> [lock |-> "Lock",  table |-> "plugins", write |-> TRUE],
     GetAvailableTools   |-> [lock |-> "RLock", table |-> "tools",   write |-> FALSE],
     GetAvailablePlugins |-> [lock |-> "RLock", table |-> "plugins", write |-> FALSE],
     executeToolTask     |-> [lock |-> "none",  table |-> "tools",   write |-> FALSE],
     executePluginTask   |-> [lock |-> "none",  table |-> "plugins", write |-> FALSE],
     GetAgent            |-> [lock |-> "RLock", table |-> "agents",  write |-> FALSE],
     DeleteAgent         |-> [lock |-> "Lock",  table |-> "agents",  write |-> TRUE]]

(* The keys the callers use on each table *)
TableKeys == [tools |-> ToolNames, plugins |-> PluginNames, agents |-> GivenIDs]

IdleThread == [op |-> "none", arg |-> "", pc |-> "idle", raced |-> FALSE, found |-> FALSE]

FreeMu == [writer |-> NoThread, readers |-> {}]

NoSends == [issued |-> <<>>, completed |-> <<>>]

(* part_005 162-168, 178-187 *)
WorkflowStep(name, type, input, model) ==
    [Name |-> name, Type |-> type, Input |-> input, ModelName |-> model]

WorkflowStepResult(name, type, input, output, model) ==
    [Name |-> name, Type |-> type, Input |-> input, Output |-> output,
     ModelUsed |-> model, Success |-> TRUE, Error |-> ""]

ZeroStepResult ==
    [Name |-> "", Type |-> "", Input |-> <<>>, Output |-> <<>>,
     ModelUsed |-> "", Success |-> FALSE, Error |-> ""]

(* part_005 170-175; isNil: the call returned no WorkflowResult *)
NilWorkflowResult == [isNil |-> TRUE, Steps |-> <<>>, Success |-> FALSE, Error |-> ""]

NoFlow ==
    [mode |-> "idle", agent |-> NoPtr, steps |-> <<>>, i |-> 0, context |-> {},
     result |-> NilWorkflowResult, err |-> ""]

(* engine.go 921-978: an ExecuteConversationWorkflow call, its workflow,   *)
(* the conversation it started, its loop index i and its result            *)
NoCW ==
    [mode |-> "idle", workflow |-> [Participants |-> <<>>, Steps |-> <<>>],
     conv |-> "", i |-> 0, err |-> "",
     result |-> [isNil |-> TRUE, Success |-> FALSE, Error |-> "",
                 StepResults |-> <<>>, Insights |-> <<>>]]

(* engine.go 32: e.tasks as NewEngine makes it *)
NoTasks == [id \in IDs |-> 0]

(* part_006 137-145: the OrchestrationResponse a call did not build *)
NilOrchestrationResponse ==
    [isNil |-> TRUE, ID |-> "", AgentID |-> "", Status |-> "", Tasks |-> <<>>,
     Results |-> <<>>, Error |-> "", CreatedAt |-> 0]

(* engine.go 219-281: an OrchestrateTasks call, its request, the IDs it    *)
(* gave its tasks, and what it returned (response, err)                    *)
NoOrch ==
    [mode |-> "idle",
     req |-> [AgentID |-> "", Tasks |-> <<>>, Sequential |-> FALSE],
     ids |-> <<>>, response |-> NilOrchestrationResponse, err |-> ""]

NoRoute ==
    [mode |-> "idle", models |-> <<>>, config |-> [ok |-> FALSE, default_model |-> ""],
     taskType |-> "", input |-> <<>>, result |-> ""]

(* Thread t is inside its access of a table *)
Accessing(t) == th[t].pc = "in"

(* Threads t and u access the same table and one of them writes it *)
Conflict(t, u) ==
    /\ t # u
    /\ Discipline[th[t].op].table = Discipline[th[u].op].table
    /\ Discipline[th[t].op].write \/ Discipline[th[u].op].write

(* What the table holds under key k *)
Holds(table, k) ==
    IF table = "tools" THEN k \in tools
    ELSE IF table = "plugins" THEN k \in plugins
    ELSE Exists(k)

(* A thread calls op(arg): an operation that takes e.mu waits for it *)
ThreadCall(t, op, arg) ==
    /\ ~crashed
    /\ th[t].pc = "idle"
    /\ th' = [th EXCEPT ![t] = [IdleThread EXCEPT
                !.op = op, !.arg = arg,
                !.pc = IF Discipline[op].lock = "none" THEN "ready" ELSE "wait"]]
    /\ UNCHANGED <<now, uuidCount, agents, agentObj, taskObj, tools, plugins, call,
                   wk, crashed, steps, execCount, history, last, convVars, mu,
                   sendLog, flowVars>>

(* e.mu.Lock() or e.mu.RLock() returns: engine.go 42, 75, 116, 496, 504,   *)
(* 512, 524                                                                *)
MuAcquire(t) ==
    /\ ~crashed
    /\ th[t].pc = "wait"
    /\ mu.writer = NoThread
    /\ IF Discipline[th[t].op].lock = "Lock"
       THEN mu.readers = {} /\ mu' = [mu EXCEPT !.writer = t]
       ELSE mu' = [mu EXCEPT !.readers = @ \cup {t}]
    /\ th' = [th EXCEPT ![t].pc = "ready"]
    /\ UNCHANGED <<now, uuidCount, agents, agentObj, taskObj, tools, plugins, call,
                   wk, crashed, steps, execCount, history, last, convVars, sendLog, flowVars>>

(* The thread starts its read or write of the table: engine.go 78, 123,    *)
(* 432, 472, 498, 506, 516, 528.  When another thread is inside a          *)
(* conflicting access of the same map this is a data race: the runtime may *)
(* end the process (concurrent map read and map write), or go on with a    *)
(* read that sees anything.                                                *)
TableEnter(t) ==
    /\ ~crashed
    /\ th[t].pc = "ready"
    /\ LET racing == {u \in Threads : Accessing(u) /\ Conflict(t, u)}
       IN  /\ th' = [u \in Threads |->
                       IF u = t THEN [th[u] EXCEPT !.pc = "in", !.raced = racing # {}]
                       ELSE IF u \in racing THEN [th[u] EXCEPT !.raced = TRUE]
                       ELSE th[u]]
           /\ crashed' \in (IF racing # {} THEN BOOLEAN ELSE {FALSE})
    /\ UNCHANGED <<now, uuidCount, agents, agentObj, taskObj, tools, plugins, call,
                   wk, steps, execCount, history, last, convVars, mu, sendLog, flowVars>>

(* The access ends, the deferred Unlock or RUnlock runs, the call returns *)
TableLeave(t) ==
    /\ ~crashed
    /\ Accessing(t)
    /\ LET op == th[t].op
           k == th[t].arg
           d == Discipline[op]
       IN  /\ tools' = IF op = "RegisterTool" THEN tools \cup {k} ELSE tools
           /\ plugins' = IF op = "RegisterPlugin" THEN plugins \cup {k} ELSE plugins
           /\ agents' = IF op = "DeleteAgent" /\ Exists(k) THEN deleteKey(agents, k)
                        ELSE agents
           /\ \E f \in (IF th[t].raced THEN BOOLEAN ELSE {Holds(d.table, k)}) :
                th' = [th EXCEPT ![t].pc = "idle", ![t].found = f]
           /\ mu' = [writer |-> IF mu.writer = t THEN NoThread ELSE mu.writer,
                     readers |-> mu.readers \ {t}]
    /\ UNCHANGED <<now, uuidCount, agentObj, taskObj, call, wk, crashed, steps,
                   execCount, history, last, convVars, sendLog, flowVars>>

----------------------------------------------------------------------------
(* Model routing.  selectBestModel looks inside strings, so the strings it *)
(* reads are spelled out in characters.                                    *)

UpperCase == <<"A", "B", "C", "D", "E", "F", "G", "H", "I", "J", "K", "L", "M",
               "N", "O", "P", "Q", "R", "S", "T", "U", "V", "W", "X", "Y", "Z">>
LowerCase == <<"a", "b", "c", "d", "e", "f", "g", "h", "i", "j", "k", "l", "m",
               "n", "o", "p", "q", "r", "s", "t", "u", "v", "w", "x", "y", "z">>

(* The characters of the model names and input words that selectBestModel  *)
(* is given; any other piece of text is one symbol that is not a letter    *)
Spell(str) ==
    CASE str = "codellama"   -> <<"c", "o", "d", "e", "l", "l", "a", "m", "a">>
      [] str = "CodeLlama"   -> <<"C", "o", "d", "e", "L", "l", "a", "m", "a">>
      [] str = "llama3.2"    -> <<"l", "l", "a", "m", "a", "3", ".", "2">>
      [] str = "llama2"      -> <<"l", "l", "a", "m", "a", "2">>
      [] str = "mistral"     -> <<"m", "i", "s", "t", "r", "a", "l">>
      [] str = "code"        -> <<"c", "o", "d", "e">>
      [] str = "CODE"        -> <<"C", "O", "D", "E">>
      [] str = "Function"    -> <<"F", "u", "n", "c", "t", "i", "o", "n">>
      [] str = "programming" -> <<"p", "r", "o", "g", "r", "a", "m", "m", "i", "n", "g">>
      [] str = "hello"       -> <<"h", "e", "l", "l", "o">>
      [] OTHER               -> <<str>>

(* The characters of a text: its pieces one after the other *)
RECURSIVE Chars(_)
Chars(text) == IF text = <<>> THEN <<>> ELSE Spell(Head(text)) \o Chars(Tail(text))

(* strings.ToLower *)
ToLower(chars) ==
    [i \in DOMAIN chars |->
        IF \E k \in DOMAIN UpperCase : UpperCase[k] = chars[i]
        THEN LowerCase[CHOOSE k \in DOMAIN UpperCase : UpperCase[k] = chars[i]]
        ELSE chars[i]]

(* strings.Contains *)
Contains(chars, sub) ==
    \E i \in 0..(Len(chars) - Len(sub)) : SubSeq(chars, i + 1, i + Len(sub)) = sub

(* part_005 65-67: the input mentions code, function or programming *)
MentionsCode(input) ==
    LET low == ToLower(Chars(input))
    IN  \/ Contains(low, Spell("code"))
        \/ Contains(low, ToLower(Spell("Function")))
        \/ Contains(low, Spell("programming"))

(* part_005 69, 78-79 *)
IsCodeModel(model) == Contains(ToLower(Spell(model)), Spell("code"))
IsLlamaModel(model) == Contains(ToLower(Spell(model)), <<"l", "l", "a", "m", "a">>)

(* the first model of the list that is in the set *)
FirstOf(models, which) ==
    models[CHOOSE i \in DOMAIN models :
             models[i] \in which /\ \A j \in 1..(i - 1) : models[j] \notin which]

(* part_005 57-95: selectBestModel(agent, taskType, input), with the       *)
(* agent's Models and what agent.Config["default_model"].(string) gives    *)
selectBestModel(models, config, taskType, input) ==
    LET all == {models[i] : i \in DOMAIN models}
        code == {m \in all : IsCodeModel(m)}
        general == {m \in all : IsLlamaModel(m) /\ ~IsCodeModel(m)}
    IN  IF Len(models) = 0 THEN ""
        ELSE IF taskType = TaskTypeGenerate /\ MentionsCode(input) /\ code # {}
        THEN FirstOf(models, code)
        ELSE IF taskType = TaskTypeChat /\ general # {}
        THEN FirstOf(models, general)
        ELSE IF config.ok /\ config.default_model \in all
        THEN config.default_model
        ELSE models[1]

----------------------------------------------------------------------------
(* Workflows *)

(* A text is a sequence of pieces; a placeholder is one piece *)
Placeholder(key) == "{{" \o key \o "}}"

(* fmt.Sprintf("step%d", i+1) for the step at 1-based position k *)
StepKey(k) == "step" \o NumStr[k + 1]

MapKeys(m) == {e[1] : e \in m}
MapGet(m, k) == (CHOOSE e \in m : e[1] = k)[2]

(* strings.ReplaceAll(text, placeholder, value) *)
RECURSIVE ReplaceAll(_, _, _)
ReplaceAll(text, placeholder, value) ==
    IF text = <<>> THEN <<>>
    ELSE (IF Head(text) = placeholder THEN value ELSE <<Head(text)>>)
         \o ReplaceAll(Tail(text), placeholder, value)

(* The orders a range over a map with these keys may take *)
KeyOrders(keys) ==
    {o \in [1..Cardinality(keys) -> keys] : \A i, j \in DOMAIN o : o[i] = o[j] => i = j}

(* part_005 152-159: replacePlaceholders(input, context), the range over   *)
(* the map taking the keys in this order                                   *)
RECURSIVE replacePlaceholders(_, _, _)
replacePlaceholders(input, context, order) ==
    IF order = <<>> THEN input
    ELSE replacePlaceholders(
             ReplaceAll(input, Placeholder(Head(order)), MapGet(context, Head(order))),
             context, Tail(order))

(* The agents of the workflows carry no Config: the type assertion of      *)
(* part_005 87 fails on the nil map                                        *)
NoConfig == [ok |-> FALSE, default_model |-> ""]

(* part_005 116-126: the Task a step is run as *)
stepTask(step, input, a) ==
    Task(step.Type, input,
         IF step.ModelName = "" THEN selectBestModel(a.Models, NoConfig, step.Type, input)
         ELSE step.ModelName,
         "", "")

(* A variant of failedWorkflow with a fault seeded: the failed step is     *)
(* named by its 0-based index                                              *)
failedWorkflow_ZeroBased(result, i, err) ==
    [result EXCEPT !.Success = FALSE,
                   !.Error = "Step " \o NumStr[i + 1] \o " failed: " \o err]

(* part_005 129-133: the result after the step at 0-based index i failed *)
failedWorkflow(result, i, err) ==
    [result EXCEPT !.Success = FALSE,
                   !.Error = "Step " \o NumStr[i + 2] \o " failed: " \o err]

(* part_005 98-111: MultiStepWorkflow(ctx, agentID, steps) up to its loop *)
MultiStepWorkflow(agentID, wsteps) ==
    /\ ~crashed /\ steps < MaxSteps
    /\ flow.mode # "running"
    /\ LET got == GetAgent(agentID)
           fresh == [isNil |-> FALSE, Steps |-> [k \in DOMAIN wsteps |-> ZeroStepResult],
                     Success |-> TRUE, Error |-> ""]
       IN  flow' = IF got.err # ""
                   THEN [NoFlow EXCEPT !.mode = "returned", !.steps = wsteps,
                                       !.err = got.err]
                   ELSE [NoFlow EXCEPT !.mode = IF wsteps = <<>> THEN "returned"
                                                ELSE "running",
                                       !.agent = got.agent, !.steps = wsteps,
                                       !.result = fresh]
    /\ steps' = steps + 1
    /\ UNCHANGED <<now, uuidCount, agents, agentObj, taskObj, tools, plugins, call,
                   wk, crashed, execCount, history, last, convVars, lockVars, route, cw, tasks, orch>>

(* part_005 113-146: one iteration of the loop, ExecuteTask (engine.go     *)
(* 129-172) included; after the last step, or a failed one, the call       *)
(* returns (148)                                                           *)
WorkflowStepRun ==
    /\ ~crashed
    /\ flow.mode = "running"
    /\ \E order \in KeyOrders(MapKeys(flow.context)), ext \in ExtOutcomes :
        LET i == flow.i
            step == flow.steps[i + 1]
            a == agentObj[flow.agent]
            input == replacePlaceholders(step.Input, flow.context, order)
            tid == Len(taskObj) + 1
            run == MarkRunning(stepTask(step, input, a))
            d == Dispatch(tid, run, a, ext, tools, plugins)
            out == d.result.Output
        IN  IF d.rec /\ updatePanics(a)
            THEN /\ crashed' = TRUE
                 /\ taskObj' = Append(taskObj, run)
                 /\ UNCHANGED <<agentObj, history, flow>>
            ELSE /\ taskObj' = Append(taskObj, Settle(run, d, now))
                 /\ agentObj' = IF d.rec
                                THEN [agentObj EXCEPT
                                        ![flow.agent] = updateAgentState(a, d.key, d.value)]
                                ELSE agentObj
                 /\ history' = IF d.rec
                               THEN [history EXCEPT
                                       ![flow.agent] = Append(@, ContextItem(d.key, d.value))]
                               ELSE history
                 /\ flow' = IF d.err # ""
                            THEN [flow EXCEPT !.mode = "returned",
                                              !.result = failedWorkflow(@, i, d.err)]
                            ELSE [flow EXCEPT
                                    !.mode = IF i + 1 = Len(flow.steps) THEN "returned"
                                             ELSE "running",
                                    !.i = i + 1,
                                    !.context = MapPut(MapPut(@, StepKey(i + 1), out),
                                                       step.Name, out),
                                    !.result.Steps[i + 1] =
                                        WorkflowStepResult(step.Name, step.Type, input,
                                                           out, d.result.ModelUsed)]
                 /\ UNCHANGED crashed
    /\ execCount' = Append(execCount, 1)
    /\ UNCHANGED <<now, uuidCount, agents, tools, plugins, call, wk, steps, last,
                   convVars, lockVars, route, cw, tasks, orch>>

(* A caller's selectBestModel call *)
Route ==
    /\ route.mode = "given"
    /\ route' = [route EXCEPT !.mode = "routed",
                   !.result = selectBestModel(route.models, route.config,
                                              route.taskType, route.input)]
    /\ UNCHANGED <<now, uuidCount, agents, agentObj, taskObj, tools, plugins, call,
                   wk, crashed, steps, execCount, history, last, convVars, lockVars,
                   flow, cw, tasks, orch>>

----------------------------------------------------------------------------
(* Conversation workflows *)

(* A step of a ConversationWorkflow; Parameters is a map from keys to      *)
(* texts                                                                   *)
ConversationStep(id, from, to, template, params) ==
    [ID |-> id, FromAgentID |-> from, ToAgentID |-> to,
     MessageTemplate |-> template, Parameters |-> params]

(* engine.go 959-964; the zero value is what make() of 930 leaves *)
ConversationStepResult(id, m) == [StepID |-> id, Message |-> m, Success |-> TRUE]
ZeroConversationStepResult == [StepID |-> "", Message |-> ZeroMessage, Success |-> FALSE]

(* engine.go 981-989: processMessageTemplate(template, params), the range  *)
(* over the map taking the keys in this order; a text is its own %v        *)
RECURSIVE processMessageTemplate(_, _, _)
processMessageTemplate(template, params, order) ==
    IF order = <<>> THEN template
    ELSE processMessageTemplate(
             ReplaceAll(template, Placeholder(Head(order)), MapGet(params, Head(order))),
             params, Tail(order))

(* engine.go 969 *)
Insight(i, step) ==
    "Step " \o NumStr[i + 2] \o ": " \o step.FromAgentID \o " -> "
        \o step.ToAgentID \o " completed successfully"

(* A variant of afterSend with a fault seeded: the insight line is written *)
(* for the failed step too                                                 *)
afterSend_InsightAlways(result, i, step, m, err) ==
    IF err # ""
    THEN [result EXCEPT !.Success = FALSE,
                        !.Error = "Step " \o NumStr[i + 2] \o " failed: " \o err,
                        !.Insights = Append(@, Insight(i, step))]
    ELSE [result EXCEPT !.StepResults[i + 1] = ConversationStepResult(step.ID, m),
                        !.Insights = Append(@, Insight(i, step))]

(* engine.go 952-970: the result after SendMessage returned err for the    *)
(* step at index i (0-based)                                               *)
afterSend(result, i, step, m, err) ==
    IF err # ""
    THEN [result EXCEPT !.Success = FALSE,
                        !.Error = "Step " \o NumStr[i + 2] \o " failed: " \o err]
    ELSE [result EXCEPT !.StepResults[i + 1] = ConversationStepResult(step.ID, m),
                        !.Insights = Append(@, Insight(i, step))]

(* engine.go 921-934: ExecuteConversationWorkflow(ctx, workflow) up to its *)
(* loop, StartConversation (716-748) included                              *)
ExecuteConversationWorkflow(workflow) ==
    /\ ~crashed /\ steps < MaxSteps
    /\ cw.mode # "running"
    /\ uuidCount < Len(UUIDs)
    /\ LET id == UUIDs[uuidCount + 1]
           ps == storedOf(workflow.Participants)
           missing == firstMissing(workflow.Participants)
           fresh == [isNil |-> FALSE, Success |-> TRUE, Error |-> "",
                     StepResults |-> [k \in DOMAIN workflow.Steps |->
                                        ZeroConversationStepResult],
                     Insights |-> <<>>]
       IN  IF missing # ""
           THEN /\ cw' = [NoCW EXCEPT !.mode = "returned", !.workflow = workflow,
                             !.err = "failed to start conversation: "
                                       \o "agent not found: " \o missing]
                /\ UNCHANGED <<conversations, agentObj, history, uuidCount, crashed>>
           ELSE IF anyPanics(ps)
           THEN /\ crashed' = TRUE
                /\ UNCHANGED <<conversations, agentObj, history, uuidCount, cw>>
           ELSE /\ conversations' = [conversations EXCEPT
                       ![id] = Conversation(id, workflow.Participants, "topic", now)]
                /\ agentObj' = recordAll(agentObj, ps, "conversation_started", <<id>>)
                /\ history' = recordedAll(history, ps, "conversation_started", <<id>>)
                /\ uuidCount' = uuidCount + 1
                /\ cw' = [NoCW EXCEPT !.mode = IF workflow.Steps = <<>> THEN "returned"
                                               ELSE "running",
                                      !.workflow = workflow, !.conv = id,
                                      !.result = fresh]
                /\ UNCHANGED crashed
    /\ steps' = steps + 1
    /\ ClockMoves
    /\ UNCHANGED <<agents, taskObj, tools, plugins, call, wk, execCount, last, deleg,
                   lockVars, flow, route, tasks, orch>>

(* engine.go 936-971: one iteration of the loop, SendMessage (751-802)     *)
(* included; after the last step, or a failed send, the call returns (977) *)
ConversationStepRun ==
    /\ ~crashed
    /\ cw.mode = "running"
    /\ uuidCount < Len(UUIDs)
    /\ LET i == cw.i
           step == cw.workflow.Steps[i + 1]
       IN  \E order \in KeyOrders(MapKeys(step.Parameters)) :
             LET msg == [Message(UUIDs[uuidCount + 1], step.FromAgentID, step.ToAgentID,
                                 processMessageTemplate(step.MessageTemplate,
                                                        step.Parameters, order),
                                 MessageTypeRequest, "")
                           EXCEPT !.Timestamp = now]
                 r == sendMessage(cw.conv, msg, now)
             IN  /\ Deliver(r, deleg)
                 /\ cw' = IF r.panics THEN cw
                          ELSE [cw EXCEPT
                                  !.result = afterSend(@, i, step, r.msg, r.err),
                                  !.i = IF r.err = "" THEN i + 1 ELSE i,
                                  !.mode = IF r.err # "" \/ i + 1 = Len(cw.workflow.Steps)
                                           THEN "returned" ELSE "running"]
    /\ uuidCount' = uuidCount + 1
    /\ UNCHANGED <<now, agents, tools, plugins, call, wk, steps, last, lockVars,
                   flow, route, tasks, orch>>

----------------------------------------------------------------------------
(* Orchestration requests *)

(* part_006 129-134 *)
TaskRequest(type, input, model) ==
    [Type |-> type, Input |-> input, ModelName |-> model]

(* part_006 119-126 *)
OrchestrationRequest(agentID, reqs, sequential) ==
    [AgentID |-> agentID, Tasks |-> reqs, Sequential |-> sequential]

(* engine.go 228-237: the Task built from a request entry *)
requestedTask(taskReq) ==
    Task(taskReq.Type, taskReq.Input, taskReq.ModelName, "", "")

(* engine.go 256-264: []*TaskResult to []TaskResult, a nil entry becomes   *)
(* the zero TaskResult                                                     *)
resultSlice(results) ==
    [k \in DOMAIN results |->
        IF results[k].isNil THEN [NilResult EXCEPT !.isNil = FALSE] ELSE results[k]]

(* A variant of orchestrationResponse with a fault seeded: the error of    *)
(* the execution is reported but the status stays completed                *)
orchestrationResponse_StaysCompleted(id, agentID, taskSlice, results, err, at) ==
    [isNil |-> FALSE, ID |-> id, AgentID |-> agentID,
     Status |-> "completed",
     Tasks |-> taskSlice, Results |-> resultSlice(results),
     Error |-> err, CreatedAt |-> at]

(* engine.go 249-278: the response built from the tasks as they are after  *)
(* ExecuteTasks returned (results, err)                                    *)
orchestrationResponse(id, agentID, taskSlice, results, err, at) ==
    [isNil |-> FALSE, ID |-> id, AgentID |-> agentID,
     Status |-> IF err # "" THEN "failed" ELSE "completed",
     Tasks |-> taskSlice, Results |-> resultSlice(results),
     Error |-> err, CreatedAt |-> at]

(* engine.go 219-246, 176: OrchestrateTasks(ctx, req) up to the loops of   *)
(* ExecuteTasks: GetAgent, one stored Task per request entry, results made *)
OrchestrateTasks(req) ==
    /\ ~crashed /\ steps < MaxSteps
    /\ call.mode = "idle"
    /\ orch.mode # "running" /\ orch.response.isNil
    /\ uuidCount + Len(req.Tasks) < Len(UUIDs)
    /\ steps' = steps + 1
    /\ LET g == GetAgent(req.AgentID)
           n == Len(req.Tasks)
           ids == [k \in 1..n |-> UUIDs[uuidCount + k]]
       IN  IF g.err # ""
           THEN /\ orch' = [NoOrch EXCEPT !.mode = "returned", !.req = req,
                                !.err = "failed to get agent: " \o g.err]
                /\ UNCHANGED <<tasks, taskObj, execCount, call, wk, uuidCount>>
           ELSE /\ taskObj' = [k \in 1..n |-> requestedTask(req.Tasks[k])]
                /\ execCount' = [k \in 1..n |-> 0]
                /\ tasks' = [id \in IDs |->
                               IF \E k \in 1..n : ids[k] = id
                               THEN CHOOSE k \in 1..n : ids[k] = id
                               ELSE tasks[id]]
                /\ uuidCount' = uuidCount + n
                /\ call' = [IdleCall EXCEPT
                               !.mode = IF req.Sequential THEN "seq" ELSE "conc",
                               !.sequential = req.Sequential,
                               !.n = n,
                               !.agent = g.agent,
                               !.results = [k \in 1..n |-> NilResult],
                               !.before = taskObj']
                /\ wk' = [k \in 1..n |->
                            [pc |-> "unborn", d |-> NoRecord(NilResult, ""),
                             ctx |-> <<>>]]
                /\ orch' = [NoOrch EXCEPT !.mode = "running", !.req = req,
                                          !.ids = ids]
    /\ UNCHANGED <<now, agents, agentObj, tools, plugins, crashed, history, last>>
    /\ UNCHANGED <<convVars, lockVars, flow, route, cw>>

(* engine.go 246-280: ExecuteTasks returned, the response is built and     *)
(* returned with the error                                                 *)
OrchestrateReturn ==
    /\ ~crashed
    /\ orch.mode = "running" /\ call.mode = "returned"
    /\ uuidCount < Len(UUIDs)
    /\ orch' = [orch EXCEPT
                  !.mode = "returned",
                  !.response = orchestrationResponse(UUIDs[uuidCount + 1],
                                   orch.req.AgentID, taskObj, call.ret,
                                   call.retErr, now),
                  !.err = call.retErr]
    /\ uuidCount' = uuidCount + 1
    /\ UNCHANGED <<now, agents, agentObj, taskObj, tools, plugins, call, wk,
                   crashed, steps, execCount, history, last, tasks>>
    /\ UNCHANGED <<convVars, lockVars, flow, route, cw>>

----------------------------------------------------------------------------
(* Specifications of the engine under single calls *)

EngineInit ==
    /\ now = 1
    /\ uuidCount = 0
    /\ agents = [id \in IDs |-> NoPtr]
    /\ conversations = [id \in IDs |-> NoConversation]
    /\ deleg = <<>>
    /\ mu = FreeMu
    /\ th = [t \in Threads |-> IdleThread]
    /\ sendLog = NoSends
    /\ flow = NoFlow /\ route = NoRoute /\ cw = NoCW
    /\ tasks = NoTasks /\ orch = NoOrch
    /\ tools = {}
    /\ plugins = {}
    /\ call = IdleCall
    /\ wk = <<>>
    /\ crashed = FALSE
    /\ steps = 0
    /\ history = [p \in Ptrs |-> <<>>]
    /\ last = NoLast

(* The Agent Store: create, get, update, delete, and the clock *)
Init ==
    /\ EngineInit
    /\ agentObj \in CallerAgents
    /\ taskObj = <<Task(TaskTypeCustom, <<"in">>, "", "", "")>>
    /\ execCount = <<0>>

Next ==
    \/ \E p \in Ptrs : CreateAgent(p)
    \/ \E p \in Ptrs : UpdateAgent(p)
    \/ \E id \in GivenIDs \cup {UUIDs[1]} : DeleteAgent(id)
    \/ \E id \in GivenIDs \cup {UUIDs[1]} : GetAgentCall(id)
    \/ Tick

Spec == Init /\ [][Next]_vars

(* The task executor: ExecuteTask on the callers' tasks and agents, with   *)
(* the registrations and the store calls that change what it meets         *)
InitExec ==
    /\ EngineInit
    /\ agentObj \in CallerAgents
    /\ taskObj \in [1..1 -> CallerTasks]
    /\ execCount = <<0>>

NextExec ==
    \/ \E p \in Ptrs : CreateAgent(p)
    \/ \E p \in Ptrs : UpdateAgent(p)
    \/ \E n \in ToolNames : RegisterTool(n)
    \/ \E n \in PluginNames : RegisterPlugin(n)
    \/ \E t \in DOMAIN taskObj, p \in Ptrs : ExecuteTaskEnter(t, p)
    \/ ExecuteTaskReturn

SpecExec == InitExec /\ [][NextExec]_vars

(* The multi-task executor: one ExecuteTasks call, sequential or           *)
(* concurrent, over the caller's pending tasks and one agent               *)
TaskListTasks ==
    {Task(TaskTypeCustom, <<"in">>, "", "", ""),
     Task(TaskTypeGenerate, <<"in">>, "", "", "")}

InitTasks ==
    /\ EngineInit
    /\ agentObj \in [p1 : {Agent("a1", "alpha", AgentTypeGeneral, st, <<"llama2">>) :
                              st \in {NilState, ZeroState, MadeState}},
                     p2 : {Agent("a2", "beta", AgentTypeReflective, NilState, <<>>)}]
    /\ \E n \in 0..MaxTasks :
        /\ taskObj \in [1..n -> TaskListTasks]
        /\ execCount = [k \in 1..n |-> 0]

NextTasks ==
    \/ \E sequential \in BOOLEAN : ExecuteTasksCall("p1", sequential)
    \/ SeqStep
    \/ SeqReturn
    \/ Spawn
    \/ \E k \in DOMAIN wk : WEnter(k)
    \/ \E k \in DOMAIN wk : WDispatch(k)
    \/ \E k \in DOMAIN wk : WAppend(k)
    \/ \E k \in DOMAIN wk : WSettle(k)
    \/ \E k \in DOMAIN wk : WRecord(k)
    \/ \E k \in DOMAIN wk, j \in DOMAIN wk : ConcurrentMapWrites(k, j)
    \/ ConcReturn

SpecTasks == InitTasks /\ [][NextTasks]_vars

(* The agents of the callers after CreateAgent stored them: alpha under    *)
(* the ID it was given, beta under a generated one                         *)
StoredAgents ==
    [p1 |-> Created(Agent("a1", "alpha", "", NilState, <<"llama2">>), "", 1, 1),
     p2 |-> Created(Agent("", "beta", AgentTypeReflective, NilState, <<>>), UUIDs[1], 1, 1)]

(* Calls of several threads at once on the registries and the Agent Store *)
InitLock ==
    /\ now = 1
    /\ uuidCount = 1
    /\ agentObj = StoredAgents
    /\ agents = [id \in IDs |-> IF id = "a1" THEN "p1"
                                ELSE IF id = UUIDs[1] THEN "p2" ELSE NoPtr]
    /\ conversations = [id \in IDs |-> NoConversation]
    /\ deleg = <<>>
    /\ mu = FreeMu
    /\ th = [t \in Threads |-> IdleThread]
    /\ sendLog = NoSends
    /\ flow = NoFlow /\ route = NoRoute /\ cw = NoCW
    /\ tasks = NoTasks /\ orch = NoOrch
    /\ tools = {} /\ plugins = {}
    /\ call = IdleCall /\ wk = <<>>
    /\ crashed = FALSE /\ steps = 0
    /\ taskObj = <<>> /\ execCount = <<>>
    /\ history = [p \in Ptrs |-> <<>>]
    /\ last = NoLast

NextLock ==
    \/ \E t \in Threads, op \in DOMAIN Discipline :
         \E k \in TableKeys[Discipline[op].table] : ThreadCall(t, op, k)
    \/ \E t \in Threads : MuAcquire(t)
    \/ \E t \in Threads : TableEnter(t)
    \/ \E t \in Threads : TableLeave(t)

SpecLock == InitLock /\ [][NextLock]_vars

(* The Conversation Manager: conversations among the two stored agents,    *)
(* messages and task delegations, with the detached goroutines of the      *)
(* delegations running between the callers' calls                          *)
ParticipantLists ==
    {<<"a1", UUIDs[1]>>, <<"a1", "ghost", UUIDs[1]>>}

CallerMessages ==
    {Message("m1", "a1", UUIDs[1], <<"do">>, MessageTypeTask, ""),
     Message("", UUIDs[1], "a1", <<"ask">>, MessageTypeTask, TaskTypeGenerate),
     Message("m2", "a1", "", <<"do">>, MessageTypeTask, ""),
     Message("m3", "ghost", "a1", <<"hello">>, MessageTypeRequest, "")}

(* The conversation IDs a caller passes: those it got, and an unknown one *)
CallerConvIDs == {id \in IDs : conversations[id].exists} \cup {"c0"}

InitConv ==
    /\ now = 1
    /\ uuidCount = 1
    /\ agentObj = StoredAgents
    /\ agents = [id \in IDs |-> IF id = "a1" THEN "p1"
                                ELSE IF id = UUIDs[1] THEN "p2" ELSE NoPtr]
    /\ conversations = [id \in IDs |-> NoConversation]
    /\ deleg = <<>>
    /\ mu = FreeMu
    /\ th = [t \in Threads |-> IdleThread]
    /\ sendLog = NoSends
    /\ flow = NoFlow /\ route = NoRoute /\ cw = NoCW
    /\ tasks = NoTasks /\ orch = NoOrch
    /\ tools = {} /\ plugins = {}
    /\ call = IdleCall /\ wk = <<>>
    /\ crashed = FALSE /\ steps = 0
    /\ taskObj = <<>> /\ execCount = <<>>
    /\ history = [p \in Ptrs |-> <<>>]
    /\ last = NoLast

NextConv ==
    \/ \E ps \in ParticipantLists : StartConversation(ps, "topic")
    \/ \E cid \in CallerConvIDs, m \in CallerMessages : SendMessage(cid, m)
    \/ \E cid \in CallerConvIDs : CloseConversation(cid)
    \/ \E id \in {"a1", UUIDs[1]} : DeleteAgent(id)
    \/ \E k \in DOMAIN deleg : DExecute(k)
    \/ \E k \in DOMAIN deleg : DReturn(k)
    \/ \E k \in DOMAIN deleg : DRespond(k)

SpecConv == InitConv /\ [][NextConv]_vars

(* The goroutine of a delegation is scheduled, and its SendMessage gets    *)
(* e.mu, which every holder releases when its call returns                 *)
GoroutinesRun ==
    \A k \in 1..MaxSteps :
        /\ WF_vars(k \in DOMAIN deleg /\ DExecute(k))
        /\ WF_vars(k \in DOMAIN deleg /\ DReturn(k))
        /\ WF_vars(k \in DOMAIN deleg /\ DRespond(k))

SpecConvLive == SpecConv /\ GoroutinesRun

(* Conversations that leave a stored agent out: alpha alone, or alpha and  *)
(* beta                                                                    *)
NarrowParticipantLists == {<<"a1">>, <<"a1", UUIDs[1]>>}

NextConvNarrow ==
    \/ \E ps \in NarrowParticipantLists : StartConversation(ps, "topic")
    \/ \E cid \in CallerConvIDs, m \in CallerMessages : SendMessage(cid, m)
    \/ \E id \in {"a1", UUIDs[1]} : DeleteAgent(id)
    \/ \E k \in DOMAIN deleg : DExecute(k)
    \/ \E k \in DOMAIN deleg : DReturn(k)
    \/ \E k \in DOMAIN deleg : DRespond(k)

SpecConvNarrow == InitConv /\ [][NextConvNarrow]_vars

(* Concurrent callers of SendMessage on one conversation.  A call is       *)
(* issued, waits for e.mu (engine.go 752), runs its body holding it, and   *)
(* completes when the deferred Unlock (753) has run.                       *)

(* The messages the concurrent callers send, each with an ID of its own *)
SentMessages == {m \in CallerMessages : m.ID # ""}

MessageOf(id) == CHOOSE m \in SentMessages : m.ID = id

(* The conversation they send to *)
TheConversation == UUIDs[2]

(* A variant of LockGranted with a fault seeded: Lock() returns whoever    *)
(* holds the mutex                                                         *)
LockGranted_Always(m) == TRUE

(* engine.go 752: e.mu.Lock() returns only while no writer and no reader   *)
(* holds the mutex                                                         *)
LockGranted(m) == m.writer = NoThread /\ m.readers = {}

(* Thread t calls SendMessage(TheConversation, m) and waits for e.mu *)
SendIssue(t, m) ==
    /\ ~crashed /\ steps < MaxSteps
    /\ th[t].pc = "idle"
    /\ th' = [th EXCEPT ![t] = [IdleThread EXCEPT
                !.op = "SendMessage", !.arg = m.ID, !.pc = "wait"]]
    /\ sendLog' = [sendLog EXCEPT !.issued = Append(@, m.ID)]
    /\ steps' = steps + 1
    /\ UNCHANGED <<now, uuidCount, agents, agentObj, taskObj, tools, plugins, call,
                   wk, crashed, execCount, history, last, convVars, mu, flowVars>>

(* engine.go 752-801: e.mu.Lock() returns and the body of SendMessage runs *)
(* up to its return statement                                              *)
SendEnter(t) ==
    /\ ~crashed
    /\ th[t].pc = "wait" /\ th[t].op = "SendMessage"
    /\ mu = FreeMu
    /\ uuidCount + 1 <= Len(UUIDs)
    /\ LET r == sendMessage(TheConversation, MessageOf(th[t].arg), now)
       IN  /\ Deliver(r, deleg)
           /\ uuidCount' = IF r.panics THEN uuidCount ELSE uuidCount + r.uuids
           /\ th' = [th EXCEPT ![t].pc = "sent", ![t].found = (r.err = "")]
    /\ mu' = [FreeMu EXCEPT !.writer = t]
    /\ ClockMoves
    /\ UNCHANGED <<agents, tools, plugins, call, wk, steps, last, sendLog, flowVars>>

(* engine.go 753: the deferred Unlock runs and the call has completed *)
SendLeave(t) ==
    /\ ~crashed
    /\ th[t].pc = "sent"
    /\ mu' = FreeMu
    /\ th' = [th EXCEPT ![t].pc = "idle"]
    /\ sendLog' = IF th[t].found
                  THEN [sendLog EXCEPT !.completed = Append(@, th[t].arg)]
                  ELSE sendLog
    /\ UNCHANGED <<now, uuidCount, agents, agentObj, taskObj, tools, plugins, call,
                   wk, crashed, steps, execCount, history, last, convVars, flowVars>>

(* engine.go 911, 752-753: the SendMessage of a delegation goroutine, from *)
(* e.mu.Lock() to the deferred Unlock                                      *)
GRespond(k) ==
    /\ LockGranted(mu)
    /\ respond(k)
    /\ sendLog' = IF conversations' # conversations
                  THEN [issued |-> Append(sendLog.issued, UUIDs[uuidCount + 1]),
                        completed |-> Append(sendLog.completed, UUIDs[uuidCount + 1])]
                  ELSE sendLog
    /\ UNCHANGED <<mu, th, flowVars>>

(* engine.go 838-839: CloseConversation, from e.mu.Lock() to the deferred  *)
(* Unlock                                                                  *)
LockedClose(cid) == mu = FreeMu /\ CloseConversation(cid)

(* Concurrent SendMessage calls on one conversation that was started among *)
(* the two stored agents                                                   *)
InitSend ==
    /\ now = 2
    /\ uuidCount = 2
    /\ agentObj = recordAll(StoredAgents, <<"p1", "p2">>, "conversation_started",
                            <<TheConversation>>)
    /\ agents = [id \in IDs |-> IF id = "a1" THEN "p1"
                                ELSE IF id = UUIDs[1] THEN "p2" ELSE NoPtr]
    /\ conversations = [id \in IDs |->
                          IF id = TheConversation
                          THEN Conversation(id, <<"a1", UUIDs[1]>>, "topic", 1)
                          ELSE NoConversation]
    /\ deleg = <<>>
    /\ mu = FreeMu
    /\ th = [t \in Threads |-> IdleThread]
    /\ sendLog = NoSends
    /\ flow = NoFlow /\ route = NoRoute /\ cw = NoCW
    /\ tasks = NoTasks /\ orch = NoOrch
    /\ tools = {} /\ plugins = {}
    /\ call = IdleCall /\ wk = <<>>
    /\ crashed = FALSE /\ steps = 0
    /\ taskObj = <<>> /\ execCount = <<>>
    /\ history = recordedAll([p \in Ptrs |-> <<>>], <<"p1", "p2">>,
                             "conversation_started", <<TheConversation>>)
    /\ last = NoLast

NextSend ==
    \/ \E t \in Threads, m \in SentMessages : SendIssue(t, m)
    \/ \E t \in Threads : SendEnter(t)
    \/ \E t \in Threads : SendLeave(t)
    \/ LockedClose(TheConversation)
    \/ \E k \in DOMAIN deleg : DExecute(k)
    \/ \E k \in DOMAIN deleg : DReturn(k)
    \/ \E k \in DOMAIN deleg : GRespond(k)

SpecSend == InitSend /\ [][NextSend]_vars

(* Concurrent calls of the methods that take e.mu, with the goroutines of  *)
(* the delegations running beside them.  A call is issued, waits for e.mu, *)
(* runs its body holding it, and returns through its deferred unlock.      *)

(* The methods a method calls, while it holds e.mu, that take e.mu         *)
(* themselves: the bodies of engine.go 41-71, 74-84, 115-126, 716-748,     *)
(* 751-802 and 837-859 call updateAgentState (537) and processTaskMessage  *)
(* (862), which take no lock; the goroutine of 890 is another thread       *)
NestedLocks_SendGetsAgent(op) == IF op = "SendMessage" THEN {"GetAgent"} ELSE {}

NestedLocks(op) == {}

(* engine.go 75, 806: the methods that take the read lock *)
ReadLocked(op) == op \in {"GetAgent"}

(* The calls of the concurrent callers *)
MuCalls ==
    {<<"SendMessage", m.ID>> : m \in SentMessages}
        \cup {<<"StartConversation", "">>, <<"CloseConversation", TheConversation>>,
              <<"CreateAgent", "p1">>, <<"GetAgent", "a1">>,
              <<"DeleteAgent", UUIDs[1]>>}

(* Thread t holds e.mu, and thread t waits for it *)
HoldsMu(t) == mu.writer = t \/ t \in mu.readers
RequestsMu(t) ==
    \/ th[t].pc = "wait"
    \/ th[t].pc = "in" /\ NestedLocks(th[t].op) # {}

(* Thread t calls the method and waits for e.mu *)
MuIssue(t, c) ==
    /\ ~crashed /\ steps < MaxSteps
    /\ th[t].pc = "idle"
    /\ th' = [th EXCEPT ![t] = [IdleThread EXCEPT !.op = c[1], !.arg = c[2],
                                                  !.pc = "wait"]]
    /\ steps' = steps + 1
    /\ UNCHANGED <<now, uuidCount, agents, agentObj, taskObj, tools, plugins, call,
                   wk, crashed, execCount, history, last, convVars, mu, sendLog,
                   flowVars>>

(* The body of the method thread t called, run under e.mu *)
MuBody(t) ==
    LET op == th[t].op
        arg == th[t].arg
    IN  \/ /\ op = "SendMessage"
           /\ LET r == sendMessage(TheConversation, MessageOf(arg), now)
              IN  /\ Deliver(r, deleg)
                  /\ uuidCount' = IF r.panics THEN uuidCount ELSE uuidCount + r.uuids
           /\ UNCHANGED agents
        \/ /\ op = "StartConversation"
           /\ LET id == UUIDs[uuidCount + 1]
                  participants == <<"a1", UUIDs[1]>>
                  ps == storedOf(participants)
              IN  IF firstMissing(participants) # ""
                  THEN UNCHANGED <<conversations, agentObj, history, uuidCount, crashed>>
                  ELSE IF anyPanics(ps)
                  THEN /\ crashed' = TRUE
                       /\ UNCHANGED <<conversations, agentObj, history, uuidCount>>
                  ELSE /\ conversations' = [conversations EXCEPT
                              ![id] = Conversation(id, participants, "topic", now)]
                       /\ agentObj' = recordAll(agentObj, ps, "conversation_started",
                                                <<id>>)
                       /\ history' = recordedAll(history, ps, "conversation_started",
                                                 <<id>>)
                       /\ uuidCount' = uuidCount + 1
                       /\ UNCHANGED crashed
           /\ UNCHANGED <<agents, taskObj, execCount, deleg>>
        \/ /\ op = "CloseConversation"
           /\ LET c == ConvLookup(arg)
                  ps == storedOf(c.Participants)
              IN  IF ~c.exists
                  THEN UNCHANGED <<conversations, agentObj, history, crashed>>
                  ELSE IF anyPanics(ps)
                  THEN /\ crashed' = TRUE
                       /\ conversations' = [conversations EXCEPT ![arg] = closed(@, now)]
                       /\ UNCHANGED <<agentObj, history>>
                  ELSE /\ conversations' = [conversations EXCEPT ![arg] = closed(@, now)]
                       /\ agentObj' = recordAll(agentObj, ps, "conversation_closed",
                                                <<arg>>)
                       /\ history' = recordedAll(history, ps, "conversation_closed",
                                                 <<arg>>)
                       /\ UNCHANGED crashed
           /\ UNCHANGED <<agents, taskObj, execCount, deleg, uuidCount>>
        \/ /\ op = "CreateAgent"
           /\ LET a == Created(agentObj[arg], UUIDs[uuidCount + 1], now, now)
              IN  /\ agentObj' = [agentObj EXCEPT ![arg] = a]
                  /\ agents' = [agents EXCEPT ![a.ID] = arg]
           /\ UNCHANGED <<conversations, history, taskObj, execCount, deleg,
                          uuidCount, crashed>>
        \/ /\ op = "DeleteAgent"
           /\ agents' = IF Exists(arg) THEN deleteKey(agents, arg) ELSE agents
           /\ UNCHANGED <<conversations, agentObj, history, taskObj, execCount, deleg,
                          uuidCount, crashed>>
        \/ /\ op = "GetAgent"
           /\ UNCHANGED <<conversations, agents, agentObj, history, taskObj, execCount,
                          deleg, uuidCount, crashed>>

(* e.mu.Lock() or e.mu.RLock() returns and the body of the method runs up  *)
(* to its return statement                                                 *)
MuEnter(t) ==
    /\ ~crashed
    /\ th[t].pc = "wait"
    /\ uuidCount + 2 <= Len(UUIDs)
    /\ IF ReadLocked(th[t].op)
       THEN /\ mu.writer = NoThread
            /\ mu' = [mu EXCEPT !.readers = @ \cup {t}]
       ELSE /\ LockGranted(mu)
            /\ mu' = [FreeMu EXCEPT !.writer = t]
    /\ MuBody(t)
    /\ th' = [th EXCEPT ![t].pc = "in"]
    /\ UNCHANGED <<now, tools, plugins, call, wk, steps, last, sendLog, flowVars>>

(* The deferred Unlock or RUnlock runs and the call returns; a body that   *)
(* waits for e.mu itself does not get here                                 *)
MuLeave(t) ==
    /\ ~crashed
    /\ th[t].pc = "in"
    /\ NestedLocks(th[t].op) = {}
    /\ mu' = IF mu.writer = t THEN FreeMu ELSE [mu EXCEPT !.readers = @ \ {t}]
    /\ th' = [th EXCEPT ![t].pc = "idle"]
    /\ UNCHANGED <<now, uuidCount, agents, agentObj, taskObj, tools, plugins, call,
                   wk, crashed, steps, execCount, history, last, convVars, sendLog,
                   flowVars>>

(* engine.go 545 run by the goroutines of two delegations at once on one   *)
(* agent, neither holding a lock: the Go runtime may detect the concurrent *)
(* map writes and end the process with a fatal error                       *)
ConcurrentStateWrites(k, j) ==
    /\ ~crashed
    /\ k # j
    /\ deleg[k].pc = "return" /\ deleg[j].pc = "return"
    /\ deleg[k].d.rec /\ deleg[j].d.rec
    /\ deleg[k].agent = deleg[j].agent
    /\ crashed' = TRUE
    /\ UNCHANGED <<now, uuidCount, agents, agentObj, taskObj, tools, plugins, call,
                   wk, steps, execCount, history, last, convVars, lockVars, flowVars>>

InitMu == InitSend

NextMu ==
    \/ \E t \in Threads, c \in MuCalls : MuIssue(t, c)
    \/ \E t \in Threads : MuEnter(t)
    \/ \E t \in Threads : MuLeave(t)
    \/ \E k \in DOMAIN deleg : DExecute(k)
    \/ \E k \in DOMAIN deleg : DReturn(k)
    \/ \E k \in DOMAIN deleg : GRespond(k)
    \/ \E k, j \in DOMAIN deleg : ConcurrentStateWrites(k, j)

(* The scheduler runs every thread, and a thread waiting for e.mu gets it  *)
(* once it stays free                                                      *)
FairMu ==
    /\ \A t \in Threads : WF_vars(MuEnter(t)) /\ WF_vars(MuLeave(t))
    /\ \A k \in 1..MaxSteps :
          /\ WF_vars(k \in DOMAIN deleg /\ DExecute(k))
          /\ WF_vars(k \in DOMAIN deleg /\ DReturn(k))
          /\ WF_vars(k \in DOMAIN deleg /\ GRespond(k))

SpecMu == InitMu /\ [][NextMu]_vars /\ FairMu

(* Model routing: selectBestModel on the callers' agents, task types and   *)
(* inputs                                                                  *)
RouteModels ==
    {<<>>, <<"llama3.2", "llama2", "codellama">>, <<"mistral", "CodeLlama">>,
     <<"codellama", "llama2">>, <<"codellama">>, <<"mistral">>,
     <<"codellama", "mistral">>}

RouteConfigs ==
    {[ok |-> FALSE, default_model |-> ""],
     [ok |-> TRUE, default_model |-> "llama2"],
     [ok |-> TRUE, default_model |-> "codellama"],
     [ok |-> TRUE, default_model |-> "gpt"]}

RouteTaskTypes == {TaskTypeGenerate, TaskTypeChat, TaskTypeEmbed, TaskTypeCustom}

RouteInputs ==
    {<<"hello">>, <<"write", "CODE">>, <<"a", "Function">>, <<"programming">>,
     <<"in">>}

InitRoute ==
    /\ now = 1
    /\ uuidCount = 1
    /\ agentObj = StoredAgents
    /\ agents = [id \in IDs |-> IF id = "a1" THEN "p1"
                                ELSE IF id = UUIDs[1] THEN "p2" ELSE NoPtr]
    /\ conversations = [id \in IDs |-> NoConversation]
    /\ deleg = <<>>
    /\ mu = FreeMu
    /\ th = [t \in Threads |-> IdleThread]
    /\ sendLog = NoSends
    /\ flow = NoFlow /\ cw = NoCW
    /\ tasks = NoTasks /\ orch = NoOrch
    /\ tools = {} /\ plugins = {}
    /\ call = IdleCall /\ wk = <<>>
    /\ crashed = FALSE /\ steps = 0
    /\ taskObj = <<>> /\ execCount = <<>>
    /\ history = [p \in Ptrs |-> <<>>]
    /\ last = NoLast
    /\ \E ms \in RouteModels, c \in RouteConfigs, tt \in RouteTaskTypes,
          in \in RouteInputs :
          route = [NoRoute EXCEPT !.mode = "given", !.models = ms, !.config = c,
                                  !.taskType = tt, !.input = in]

NextRoute == Route

SpecRoute == InitRoute /\ [][NextRoute]_vars

(* Workflows: MultiStepWorkflow calls, one after the other, on the two     *)
(* stored agents and an unknown one                                        *)
CallerWorkflows ==
    {<<WorkflowStep("first", TaskTypeCustom, <<"x">>, ""),
       WorkflowStep("second", TaskTypeGenerate,
                    <<"use", "{{step1}}", "and", "{{first}}", "{{step3}}">>, ""),
       WorkflowStep("third", TaskTypeReflect, <<"{{second}}", "{{step2}}">>, "")>>,
     <<WorkflowStep("a", TaskTypeReflect, <<"{{step1}}">>, ""),
       WorkflowStep("b", TaskTypeCustom, <<"{{a}}">>, "")>>,
     <<>>}

InitFlow ==
    /\ now = 1
    /\ uuidCount = 1
    /\ agentObj = StoredAgents
    /\ agents = [id \in IDs |-> IF id = "a1" THEN "p1"
                                ELSE IF id = UUIDs[1] THEN "p2" ELSE NoPtr]
    /\ conversations = [id \in IDs |-> NoConversation]
    /\ deleg = <<>>
    /\ mu = FreeMu
    /\ th = [t \in Threads |-> IdleThread]
    /\ sendLog = NoSends
    /\ flow = NoFlow /\ route = NoRoute /\ cw = NoCW
    /\ tasks = NoTasks /\ orch = NoOrch
    /\ tools = {} /\ plugins = {}
    /\ call = IdleCall /\ wk = <<>>
    /\ crashed = FALSE /\ steps = 0
    /\ taskObj = <<>> /\ execCount = <<>>
    /\ history = [p \in Ptrs |-> <<>>]
    /\ last = NoLast

NextFlow ==
    \/ \E id \in {"a1", UUIDs[1], "ghost"}, ws \in CallerWorkflows :
         MultiStepWorkflow(id, ws)
    \/ WorkflowStepRun

SpecFlow == InitFlow /\ [][NextFlow]_vars

(* Orchestration: OrchestrateTasks calls for a stored and for an unknown   *)
(* agent, followed up to the first call that creates tasks                 *)
CallerTaskRequests ==
    {TaskRequest(TaskTypeCustom, <<"in">>, ""),
     TaskRequest(TaskTypeGenerate, <<"in">>, "")}

CallerOrchestrationRequests ==
    {OrchestrationRequest(id, reqs, sequential) :
        id \in {"a1", "ghost"},
        reqs \in UNION {[1..n -> CallerTaskRequests] : n \in 0..MaxTasks},
        sequential \in BOOLEAN}

InitOrch == InitFlow

NextOrch ==
    \/ \E req \in CallerOrchestrationRequests : OrchestrateTasks(req)
    \/ SeqStep
    \/ SeqReturn
    \/ Spawn
    \/ \E k \in DOMAIN wk : WEnter(k)
    \/ \E k \in DOMAIN wk : WDispatch(k)
    \/ \E k \in DOMAIN wk : WAppend(k)
    \/ \E k \in DOMAIN wk : WSettle(k)
    \/ \E k \in DOMAIN wk : WRecord(k)
    \/ \E k \in DOMAIN wk, j \in DOMAIN wk : ConcurrentMapWrites(k, j)
    \/ ConcReturn
    \/ OrchestrateReturn

SpecOrch == InitOrch /\ [][NextOrch]_vars

(* Conversation workflows: ExecuteConversationWorkflow calls, one after    *)
(* the other, while other callers close conversations and delete agents    *)
CallerConversationWorkflows ==
    {[Participants |-> <<"a1", UUIDs[1]>>,
      Steps |-> <<ConversationStep("s1", "a1", UUIDs[1], <<"hello", "{{name}}">>,
                                   {<<"name", <<"beta">>>>}),
                  ConversationStep("s2", UUIDs[1], "a1", <<"reply">>, {}),
                  ConversationStep("s3", "a1", UUIDs[1], <<"bye">>, {})>>],
     [Participants |-> <<"a1", UUIDs[1]>>,
      Steps |-> <<ConversationStep("s1", "a1", UUIDs[1], <<"hello">>, {}),
                  ConversationStep("s2", "ghost", "a1", <<"boo">>, {}),
                  ConversationStep("s3", "a1", UUIDs[1], <<"bye">>, {})>>],
     [Participants |-> <<"a1", "ghost", UUIDs[1]>>,
      Steps |-> <<ConversationStep("s1", "a1", UUIDs[1], <<"hello">>, {})>>],
     [Participants |-> <<"a1", UUIDs[1]>>, Steps |-> <<>>]}

InitCW == InitFlow

NextCW ==
    \/ \E w \in CallerConversationWorkflows : ExecuteConversationWorkflow(w)
    \/ ConversationStepRun
    \/ \E cid \in CallerConvIDs : CloseConversation(cid)
    \/ \E id \in {"a1", UUIDs[1]} : DeleteAgent(id)

SpecCW == InitCW /\ [][NextCW]_vars

----------------------------------------------------------------------------
(* Claims about ExecuteTask, checked under SpecExec *)

Terminal(status) == status \in {TaskStatusCompleted, TaskStatusFailed}

(* ExecuteTask returned last, and no ExecuteTask is in flight since *)
TaskReturned == last.op = "ExecuteTask" /\ call.mode = "idle"

(* C5: after any ExecuteTask call that returns a TaskResult, whatever the  *)
(* task was before, the task has Status completed, a non-nil CompletedAt,  *)
(* an empty Error, and Output equal to the TaskResult's Output.            *)
C5_SuccessLeavesCleanTask ==
    (TaskReturned /\ last.err = "") =>
        LET t == taskObj[last.task]
        IN  /\ ~last.result.isNil
            /\ t.Status = TaskStatusCompleted
            /\ t.CompletedAt # 0
            /\ t.Error = ""
            /\ t.Output = last.result.Output

(* C6: when the dispatch of ExecuteTask returns an error, the task ends    *)
(* failed with Error set to the error's text, the call returns the error   *)
(* and no TaskResult, and Output and CompletedAt are as before the call.   *)
C6_DispatchErrorFailsTask ==
    (TaskReturned /\ last.err # "") =>
        LET t == taskObj[last.task]
        IN  /\ last.result.isNil
            /\ t.Status = TaskStatusFailed
            /\ t.Error = last.err
            /\ t.Output = last.pre.Output
            /\ t.CompletedAt = last.pre.CompletedAt

(* C6 witness: a task that had completed with an output fails when run again *)
C6_Witness ==
    /\ TaskReturned /\ last.err # ""
    /\ last.pre.Status = TaskStatusCompleted
    /\ last.pre.Output # <<>>
    /\ last.pre.CompletedAt # 0

(* C7, first half: every ExecuteTask call leaves the task completed or     *)
(* failed when it returns                                                  *)
ReturnsTerminal == TaskReturned => Terminal(taskObj[last.task].Status)

(* C7 as claimed: ... and a task that has reached completed or failed      *)
(* never goes back to running.                                             *)
C7_TerminalNeverRunsAgain ==
    /\ []ReturnsTerminal
    /\ [][\A t \in DOMAIN taskObj :
            Terminal(taskObj[t].Status) => taskObj'[t].Status # TaskStatusRunning]_vars

(* C7 as amended: every ExecuteTask call leaves the task completed or      *)
(* failed when it returns, and a completed or failed task changes Status   *)
(* only when ExecuteTask is entered for it again, which marks it running.  *)
C7_TerminalUntilExecutedAgain ==
    /\ []ReturnsTerminal
    /\ [][\A t \in DOMAIN taskObj :
            (Terminal(taskObj[t].Status) /\ taskObj'[t].Status # taskObj[t].Status)
                => /\ taskObj'[t].Status = TaskStatusRunning
                   /\ execCount'[t] = execCount[t] + 1]_vars

(* C7 witness: a task executed twice has returned in a terminal status *)
C7_Witness ==
    /\ TaskReturned
    /\ execCount[last.task] >= 2
    /\ Terminal(last.pre.Status)
    /\ Terminal(taskObj[last.task].Status)

(* C9: the State of a stored agent is non-nil once any task has touched    *)
(* the agent, also when the stored agent was put there by UpdateAgent      *)
(* with a nil State.                                                       *)
C9_TouchedAgentHasState ==
    (TaskReturned /\ Lookup(last.id) = last.agent)
        => ~agentObj[last.agent].State.isNil

----------------------------------------------------------------------------
(* Claims about ExecuteTasks, checked under SpecTasks *)

SeqReturned == call.mode = "returned" /\ call.sequential
ConcReturned == call.mode = "returned" /\ ~call.sequential

Failed(k) == taskObj[k].Status = TaskStatusFailed
Completed(k) == taskObj[k].Status = TaskStatusCompleted

(* ret[k] is the TaskResult of tasks[k] *)
ResultOf(r, k) ==
    /\ ~r.isNil
    /\ r.TaskID = k
    /\ r.Output = taskObj[k].Output

Pos(order, k) == CHOOSE i \in 1..Len(order) : order[i] = k

C2_ConcurrentRunsEveryTask ==
    ConcReturned =>
        \A k \in 1..call.n : Terminal(taskObj[k].Status) /\ execCount[k] = 1

(* C2 witness: a task failed and recorded its error before another, which  *)
(* completed                                                               *)
C2_Witness ==
    /\ ConcReturned
    /\ \E k \in 1..call.n, j \in 1..call.n :
         Failed(k) /\ Completed(j) /\ Pos(call.order, k) < Pos(call.order, j)

(* C3: concurrent ExecuteTasks returns len(tasks) entries; entry k is the  *)
(* TaskResult of tasks[k] if it succeeded and nil if it failed.            *)
C3_ResultsKeepPositions ==
    ConcReturned =>
        /\ Len(call.ret) = call.n
        /\ \A k \in 1..call.n :
             IF Completed(k) THEN ResultOf(call.ret[k], k) ELSE call.ret[k].isNil

(* C3 witness: the first task failed, a later one succeeded, and the later *)
(* one stored its result first                                             *)
C3_Witness ==
    /\ ConcReturned
    /\ call.n >= 2
    /\ Failed(1)
    /\ \E j \in 2..call.n : Completed(j) /\ Pos(call.order, j) < Pos(call.order, 1)

(* C4: concurrent ExecuteTasks returns an error iff a task failed; the     *)
(* error is that of the failed task that recorded first under the mutex;   *)
(* every failed task carries its own error text.                           *)
C4_FirstErrorOnly ==
    ConcReturned =>
        LET failed == {k \in 1..call.n : Failed(k)}
        IN  /\ (call.retErr # "") <=> (failed # {})
            /\ failed # {} =>
                 \E k \in failed :
                    /\ call.retErr = taskObj[k].Error
                    /\ \A j \in failed : Pos(call.order, k) <= Pos(call.order, j)
            /\ \A k \in failed :
                 taskObj[k].Error # "" /\ taskObj[k].Error = wk[k].d.err

(* C4 witness: two tasks failed with different errors, the later in the    *)
(* list recording first                                                    *)
C4_Witness ==
    /\ ConcReturned
    /\ \E k \in 1..call.n, j \in 1..call.n :
         /\ k < j /\ Failed(k) /\ Failed(j)
         /\ taskObj[k].Error # taskObj[j].Error
         /\ Pos(call.order, j) < Pos(call.order, k)
         /\ call.retErr = taskObj[j].Error

(* C8: Context holds at most 10 items and equals the last min(n, 10) of    *)
(* the n items recorded on the agent, in insertion order.                  *)
C8_ContextIsLastTen ==
    \A p \in Ptrs :
        LET ctx == agentObj[p].State.Context
            h == history[p]
        IN  /\ Len(ctx) <= ContextLimit
            /\ ctx = SubSeq(h, IF Len(h) > ContextLimit THEN Len(h) - ContextLimit + 1
                                                      ELSE 1, Len(h))

----------------------------------------------------------------------------
(* Claims about the Agent Store, checked under Spec *)

(* What CreateAgent leaves whatever State it was given *)
CreatedBasics ==
    LET a == agentObj[last.agent]
    IN  /\ last.err = ""
        /\ a.ID # ""
        /\ a.ID = (IF last.was.ID = "" THEN UUIDs[uuidCount] ELSE last.was.ID)
        /\ a.CreatedAt # 0
        /\ a.UpdatedAt # 0
        /\ ~a.State.isNil
        /\ a.Type = (IF last.was.Type = "" THEN AgentTypeGeneral ELSE last.was.Type)
        /\ GetAgent(a.ID) = [agent |-> last.agent, err |-> ""]

(* C10 as claimed: CreateAgent always succeeds and leaves a non-empty ID   *)
(* (given or fresh), non-zero CreatedAt and UpdatedAt, a non-nil State     *)
(* with initialized Memory and Context, Type general when none was given;  *)
(* GetAgent with that ID returns this agent.                               *)
C10_CreateAgentInitializesAll ==
    (last.op = "CreateAgent") =>
        /\ CreatedBasics
        /\ ~agentObj[last.agent].State.MemoryNil
        /\ ~agentObj[last.agent].State.ContextNil

(* C10 as amended: ... a non-nil State, which is a fresh one with          *)
(* initialized Memory and Context when none was given and the given one,   *)
(* as it is, otherwise ...                                                 *)
C10_CreateAgentInitializesMissing ==
    (last.op = "CreateAgent") =>
        /\ CreatedBasics
        /\ agentObj[last.agent].State =
             (IF last.was.State.isNil THEN MadeState ELSE last.was.State)

(* C10 witness: CreateAgent was given an agent with no ID, Type or State *)
C10_Witness ==
    /\ last.op = "CreateAgent"
    /\ last.was.ID = "" /\ last.was.Type = "" /\ last.was.State.isNil
    /\ agentObj[last.agent].State = MadeState

(* The store call op has just returned *)
JustReturned(op) == steps' = steps + 1 /\ last'.op = op

(* C11: every successful UpdateAgent on an existing agent strictly         *)
(* advances the stored agent's UpdatedAt beyond its value before the call, *)
(* and the stored agent afterwards carries the fields of the value passed  *)
(* in.                                                                     *)
C11_UpdateAdvancesUpdatedAt ==
    [][(JustReturned("UpdateAgent") /\ last'.err = "") =>
         LET id == last'.id
         IN  /\ Exists(id)
             /\ agents'[id] = last'.agent
             /\ agentObj'[agents'[id]] = [last'.was EXCEPT !.UpdatedAt = now']
             /\ agentObj'[agents'[id]].UpdatedAt > agentObj[agents[id]].UpdatedAt]_vars

(* C12: after a successful DeleteAgent(id), GetAgent(id) fails with a      *)
(* not-found error and no listed agent has that ID, and an absent ID       *)
(* stays absent until CreateAgent stores an agent with that ID.            *)
C12_DeletedUntilCreatedAgain ==
    /\ []((last.op = "DeleteAgent" /\ last.err = "") =>
            /\ GetAgent(last.id) = [agent |-> NoPtr, err |-> "agent not found: " \o last.id]
            /\ \A p \in ListAgents : agentObj[p].ID # last.id)
    /\ []((last.op = "GetAgent" /\ ~Exists(last.id)) =>
            (last.agent = NoPtr /\ last.err = "agent not found: " \o last.id))
    /\ [][\A id \in IDs :
            (~Exists(id) /\ agents'[id] # NoPtr)
                => (JustReturned("CreateAgent") /\ last'.id = id)]_vars

(* C12 witness: GetAgent failed for the ID of an agent that was created    *)
(* and deleted since                                                       *)
C12_Witness ==
    /\ last.op = "GetAgent" /\ last.err # ""
    /\ \E p \in Ptrs : agentObj[p].ID = last.id /\ agentObj[p].CreatedAt # 0

(* C13: GetAgent, UpdateAgent and DeleteAgent on an ID that is not in the  *)
(* Agent Store fail with a not-found error and leave the store and every   *)
(* agent as they were.                                                     *)
C13_AbsentIDFailsAndKeepsStore ==
    [][\A op \in {"GetAgent", "UpdateAgent", "DeleteAgent"} :
         (JustReturned(op) /\ Lookup(last'.id) = NoPtr) =>
             /\ last'.err = "agent not found: " \o last'.id
             /\ op = "GetAgent" => last'.agent = NoPtr
             /\ agents' = agents
             /\ agentObj' = agentObj]_vars

(* C13 witness: UpdateAgent failed on an unknown ID while another agent is *)
(* stored                                                                  *)
C13_Witness ==
    /\ last.op = "UpdateAgent" /\ last.err # ""
    /\ ListAgents # {}
    /\ ~Exists(last.id)

(* The IDs the Agent Store holds an agent for *)
StoredIDs == {id \in IDs : agents[id] # NoPtr}

(* C39: the Agent Store holds at most one agent per ID after any sequence  *)
(* of operations, and CreateAgent called with an ID that is already        *)
(* present does not fail: it replaces the stored agent with the new one    *)
(* (restamping CreatedAt and UpdatedAt), so the number of stored agents is *)
(* unchanged by that call.                                                 *)
C39_CreateReplacesSameID ==
    /\ [](\A id \in IDs :
            /\ Cardinality({p \in ListAgents : agentObj[p].ID = id}) <= 1
            /\ agents[id] # NoPtr => agentObj[agents[id]].ID = id)
    /\ [][(JustReturned("CreateAgent") /\ Lookup(last'.id) # NoPtr) =>
            /\ last'.err = ""
            /\ agents'[last'.id] = last'.agent
            /\ \A id \in IDs \ {last'.id} : agents'[id] = agents[id]
            /\ StoredIDs' = StoredIDs
            /\ Cardinality(ListAgents') = Cardinality(ListAgents)
            /\ agentObj'[last'.agent].CreatedAt = now
            /\ agentObj'[last'.agent].UpdatedAt = now']_vars

(* C39 witness: CreateAgent stored beta under the ID that alpha, created    *)
(* before it, was stored under                                             *)
C39_Witness ==
    /\ last.op = "CreateAgent" /\ last.err = ""
    /\ last.agent = "p2"
    /\ agentObj["p1"].ID = last.id /\ agentObj["p1"].CreatedAt # 0
    /\ agents[last.id] = "p2"
    /\ Cardinality(ListAgents) = 1

----------------------------------------------------------------------------
(* Claims about locking, checked under SpecLock *)

(* C14: a write to the Agent Store or to a registry never overlaps with a  *)
(* read or write of the same table by another operation, the registry      *)
(* lookups of tool and plugin task execution included.                     *)
C14_WritesExcludeOtherAccess ==
    \A t \in Threads, u \in Threads :
        (Accessing(t) /\ Accessing(u)) => ~Conflict(t, u)

----------------------------------------------------------------------------
(* Claims about conversations, checked under SpecConv *)

(* The conversation call op has just returned to its caller *)
ConvReturned(op) == JustReturned(op) /\ ~crashed'

(* p's Memory holds value under key *)
Remembers(a, key, value) == <<key, value>> \in a.State.Memory

(* C15: StartConversation with a participant list containing at least one  *)
(* ID that is not in the Agent Store fails with an agent-not-found error,  *)
(* creates no Conversation, and records no conversation_started entry on   *)
(* any participant, the participants that do exist included.               *)
C15_MissingParticipantFailsCleanly ==
    [][(/\ ConvReturned("StartConversation")
        /\ \E i \in DOMAIN last'.ids : ~Exists(last'.ids[i])) =>
           /\ \E i \in DOMAIN last'.ids :
                /\ ~Exists(last'.ids[i])
                /\ \A j \in 1..(i - 1) : Exists(last'.ids[j])
                /\ last'.err = "agent not found: " \o last'.ids[i]
           /\ conversations' = conversations
           /\ agentObj' = agentObj
           /\ history' = history
           /\ taskObj' = taskObj /\ deleg' = deleg]_vars

(* C15 witness: StartConversation failed on a list whose first participant *)
(* is stored and whose second is not, and that participant has no          *)
(* conversation_started entry                                              *)
C15_Witness ==
    /\ last.op = "StartConversation" /\ last.err # ""
    /\ Len(last.ids) >= 2
    /\ Exists(last.ids[1]) /\ ~Exists(last.ids[2])
    /\ \A i \in DOMAIN history[agents[last.ids[1]]] :
         history[agents[last.ids[1]]][i].Key # "conversation_started"

(* C16: a successful StartConversation creates exactly one new             *)
(* Conversation with Status active, an empty message log and the given     *)
(* participants, retrievable by GetConversation, and records a             *)
(* conversation_started memory entry, valued with the new conversation's   *)
(* ID, on every participant.                                               *)
C16_StartCreatesActiveConversation ==
    /\ []((last.op = "StartConversation" /\ last.err = "") =>
            /\ GetConversation(last.id).err = ""
            /\ GetConversation(last.id).conversation = conversations[last.id]
            /\ conversations[last.id].ID = last.id
            /\ conversations[last.id].Participants = last.ids)
    /\ [][(ConvReturned("StartConversation") /\ last'.err = "") =>
            LET id == last'.id
            IN  /\ ~ConvLookup(id).exists
                /\ conversations'[id].exists
                /\ conversations'[id].ID = id
                /\ conversations'[id].Status = ConversationStatusActive
                /\ conversations'[id].Messages = <<>>
                /\ conversations'[id].Participants = last'.ids
                /\ \A other \in IDs \ {id} : conversations'[other] = conversations[other]
                /\ \A i \in DOMAIN last'.ids :
                     /\ Exists(last'.ids[i])
                     /\ Remembers(agentObj'[agents[last'.ids[i]]],
                                  "conversation_started", <<id>>)]_vars

(* C16 witness: a second conversation was started among two stored agents  *)
(* and both remember it                                                    *)
C16_Witness ==
    /\ last.op = "StartConversation" /\ last.err = ""
    /\ Len(last.ids) = 2
    /\ Cardinality({id \in IDs : conversations[id].exists}) = 2
    /\ \A i \in DOMAIN last.ids :
         Remembers(agentObj[agents[last.ids[i]]], "conversation_started", <<last.id>>)

(* C17: closing a conversation is terminal: once a Conversation's Status   *)
(* is closed it is never active again, and its message log never changes   *)
(* afterwards under any sequence of operations, the late response of a     *)
(* task delegation sent before the close included.                         *)
C17_ClosedIsTerminal ==
    [][\A id \in IDs :
         conversations[id].Status = ConversationStatusClosed =>
             /\ conversations'[id].Status = ConversationStatusClosed
             /\ conversations'[id].Messages = conversations[id].Messages]_vars

(* C17 witness: a delegation was sent, the conversation was closed, and    *)
(* the goroutine's response came late and was refused                      *)
C17_Witness ==
    \E k \in DOMAIN deleg :
        /\ deleg[k].pc = "done"
        /\ deleg[k].err = "conversation is not active: " \o ConversationStatusClosed
        /\ conversations[deleg[k].conv].Status = ConversationStatusClosed
        /\ Len(conversations[deleg[k].conv].Messages) = 1

(* What a refused SendMessage leaves alone: every conversation (message    *)
(* log and UpdatedAt), every agent's memory and context, and the tasks     *)
NothingSent ==
    /\ conversations' = conversations
    /\ agentObj' = agentObj
    /\ history' = history
    /\ taskObj' = taskObj
    /\ execCount' = execCount
    /\ Len(deleg') = Len(deleg)

(* C18: SendMessage fails when the conversation is absent, when the        *)
(* conversation is not active, or when the sender agent is not in the      *)
(* Agent Store; in each of these cases the conversation's message log, its *)
(* UpdatedAt and every agent's memory/context are left unchanged and no    *)
(* task is started.                                                        *)
C18_RefusedSendChangesNothing ==
    /\ [][ConvReturned("SendMessage") =>
            LET c == ConvLookup(last'.id)
                from == last'.msg.FromAgentID
            IN  /\ ~c.exists =>
                     (last'.err = "conversation not found: " \o last'.id /\ NothingSent)
                /\ (c.exists /\ c.Status # ConversationStatusActive) =>
                     (last'.err = "conversation is not active: " \o c.Status /\ NothingSent)
                /\ (c.exists /\ c.Status = ConversationStatusActive /\ ~Exists(from)) =>
                     (last'.err = "sender agent not found: " \o from /\ NothingSent)]_vars
    /\ [][\A k \in DOMAIN deleg :
            (deleg[k].pc = "respond" /\ deleg'[k].pc = "done") =>
                LET c == ConvLookup(deleg[k].conv)
                IN  (c.Status # ConversationStatusActive \/ ~Exists(deleg[k].msg.ToAgentID))
                        => (deleg'[k].err # "" /\ NothingSent)]_vars

(* C18 witness: a message of an unknown sender was refused on an active    *)
(* conversation that holds a message and was last updated earlier          *)
C18_Witness ==
    /\ last.op = "SendMessage"
    /\ last.err = "sender agent not found: " \o last.msg.FromAgentID
    /\ ConvLookup(last.id).Status = ConversationStatusActive
    /\ Len(ConvLookup(last.id).Messages) = 1
    /\ ConvLookup(last.id).UpdatedAt < now - 1

(* C19: CloseConversation is an idempotent terminal transition: on an      *)
(* existing conversation it succeeds whether the conversation is active or *)
(* already closed, the Status is closed afterwards, and a second close     *)
(* leaves the Status and the message log as the first close left them; it  *)
(* fails only when the conversation is absent, and then nothing changes.   *)
C19_CloseIsIdempotent ==
    [][ConvReturned("CloseConversation") =>
         LET cid == last'.id
             c == ConvLookup(cid)
         IN  IF c.exists
             THEN /\ last'.err = ""
                  /\ conversations'[cid].Status = ConversationStatusClosed
                  /\ conversations'[cid].Messages = c.Messages
                  /\ \A other \in IDs \ {cid} : conversations'[other] = conversations[other]
             ELSE /\ last'.err = "conversation not found: " \o cid
                  /\ conversations' = conversations
                  /\ agentObj' = agentObj
                  /\ history' = history
                  /\ taskObj' = taskObj /\ deleg' = deleg]_vars

(* C19 witness: a conversation was closed twice, the second close          *)
(* succeeded and the conversation is closed                                *)
C19_Witness ==
    /\ last.op = "CloseConversation" /\ last.err = ""
    /\ conversations[last.id].Status = ConversationStatusClosed
    /\ \E p \in Ptrs :
         Cardinality({i \in DOMAIN history[p] :
                        history[p][i] = ContextItem("conversation_closed", <<last.id>>)}) = 2

----------------------------------------------------------------------------
(* Claims about task delegation, checked under SpecConvLive *)

(* The conversation of delegation k holds a response to it: sent by the    *)
(* agent the delegation went to, to the agent it came from, naming the     *)
(* delegation message and the delegated task                               *)
Responded(k) ==
    LET g == deleg[k]
        log == conversations[g.conv].Messages
    IN  \E i \in DOMAIN log :
            /\ log[i].Type = MessageTypeResponse
            /\ log[i].FromAgentID = g.msg.ToAgentID
            /\ log[i].ToAgentID = g.msg.FromAgentID
            /\ log[i].Context.original_message_id = g.msg.ID
            /\ log[i].Context.task_id = g.taskID

(* What excuses the response of delegation k: the delegated task failed,   *)
(* the conversation is no longer active, or the target agent has left the  *)
(* Agent Store                                                             *)
Excused(k) ==
    LET g == deleg[k]
    IN  \/ taskObj[g.task].Status = TaskStatusFailed
        \/ conversations[g.conv].Status # ConversationStatusActive
        \/ ~Exists(g.msg.ToAgentID)

----------------------------------------------------------------------------
(* Claims about messages and delegations, checked under SpecConv *)

(* SendMessage gets past its three checks with the message it is given *)
Accepted(cid, m) ==
    /\ ConvLookup(cid).exists
    /\ ConvLookup(cid).Status = ConversationStatusActive
    /\ Exists(m.FromAgentID)

(* A step of a delegation goroutine *)
GoroutineStep == \E k \in DOMAIN deleg : deleg'[k].pc # deleg[k].pc

(* C21: task delegation is fire-and-forget: the return value of the        *)
(* SendMessage call that carries a task-delegation message does not depend *)
(* on the delegated task; a failure of the delegated task, or of sending   *)
(* the response message, is never surfaced to the original SendMessage     *)
(* caller and never removes the delegation message from the log.           *)
C21_DelegationIsFireAndForget ==
    /\ [][(/\ ConvReturned("SendMessage")
           /\ last'.msg.Type = MessageTypeTask
           /\ Accepted(last'.id, last'.msg)) => last'.err = ""]_vars
    /\ [][GoroutineStep => last' = last]_vars
    /\ [](\A k \in DOMAIN deleg :
            \E i \in DOMAIN conversations[deleg[k].conv].Messages :
                conversations[deleg[k].conv].Messages[i] = deleg[k].msg)

(* C21 witness: the delegated task has failed after the SendMessage that   *)
(* carried it returned nil, and the delegation message is in the log       *)
C21_Witness ==
    /\ last.op = "SendMessage" /\ last.err = ""
    /\ \E k \in DOMAIN deleg :
         /\ deleg[k].msg = last.msg
         /\ deleg[k].pc = "done"
         /\ taskObj[deleg[k].task].Status = TaskStatusFailed
         /\ conversations[deleg[k].conv].Messages = <<last.msg>>

(* C22: a task-delegation message must carry a non-empty receiver AgentID: *)
(* in every reachable state no conversation log contains a task-delegation *)
(* message whose ToAgentID is empty, and SendMessage of such a message is  *)
(* rejected with an InvalidRequest error returned immediately to the       *)
(* caller.                                                                 *)
C22_DelegationNamesReceiver ==
    /\ [](\A id \in IDs :
            \A i \in DOMAIN conversations[id].Messages :
                conversations[id].Messages[i].Type = MessageTypeTask
                    => conversations[id].Messages[i].ToAgentID # "")
    /\ [][(/\ ConvReturned("SendMessage")
           /\ last'.msg.Type = MessageTypeTask
           /\ last'.msg.ToAgentID = "") => (last'.err # "" /\ NothingSent)]_vars

----------------------------------------------------------------------------
(* Claims about concurrent SendMessage calls, checked under SpecSend *)

IsPrefix(a, b) == Len(a) <= Len(b) /\ SubSeq(b, 1, Len(a)) = a

(* The IDs of the messages in the log of TheConversation, in log order *)
LogIDs ==
    [i \in DOMAIN conversations[TheConversation].Messages |->
        conversations[TheConversation].Messages[i].ID]

(* The IDs appended by calls that have not completed yet, in the order     *)
(* they were appended in                                                   *)
InFlightIDs ==
    IF \E t \in Threads : th[t].pc = "sent" /\ th[t].found
    THEN <<th[CHOOSE t \in Threads : th[t].pc = "sent" /\ th[t].found].arg>>
    ELSE <<>>

(* C23: a Conversation's message log is append-only and ordered by         *)
(* SendMessage completion: each successful SendMessage appends exactly one *)
(* message at the end, the log before any operation is always a prefix of  *)
(* the log after it, and under concurrent callers the log order equals the *)
(* order in which the SendMessage calls completed.                         *)
C23_LogIsAppendOnlyInCompletionOrder ==
    /\ [][\A id \in IDs :
            IsPrefix(conversations[id].Messages, conversations'[id].Messages)]_vars
    /\ [][\A t \in Threads :
            (th[t].pc = "wait" /\ th'[t].pc = "sent" /\ th'[t].found) =>
                conversations'[TheConversation].Messages =
                    Append(conversations[TheConversation].Messages,
                           [MessageOf(th[t].arg) EXCEPT !.Timestamp = now])]_vars
    /\ [](Cardinality({t \in Threads : th[t].pc = "sent"}) <= 1)
    /\ [](LogIDs = sendLog.completed \o InFlightIDs)

(* C23 witness: m1 was issued before m2 and completed after it, the        *)
(* response to m1 came last, and the log holds m2, m1 and the response     *)
C23_Witness ==
    /\ Len(sendLog.issued) >= 2
    /\ sendLog.issued[1] = "m1" /\ sendLog.issued[2] = "m2"
    /\ Len(LogIDs) = 3
    /\ LogIDs[1] = "m2" /\ LogIDs[2] = "m1"
    /\ conversations[TheConversation].Messages[3].Type = MessageTypeResponse
    /\ \A t \in Threads : th[t].pc = "idle"

(* The positions of the log of TheConversation that hold the message with  *)
(* this ID                                                                 *)
LogPositions(id) == {i \in DOMAIN LogIDs : LogIDs[i] = id}

(* The response messages in the log, by position *)
ResponsePositions ==
    {j \in DOMAIN LogIDs :
       conversations[TheConversation].Messages[j].Type = MessageTypeResponse}

(* C33: the response message of a task delegation is always appended after *)
(* the delegation message in the conversation log, and only after the      *)
(* SendMessage call that carried the delegation has returned (released the *)
(* engine lock); it is never appended before or in place of the delegation *)
(* message, in any interleaving.                                           *)
C33_ResponseFollowsDelegation ==
    /\ [](\A j \in ResponsePositions :
            LET log == conversations[TheConversation].Messages
                orig == log[j].Context.original_message_id
            IN  /\ \E i \in 1..(j - 1) :
                      /\ log[i].ID = orig
                      /\ log[i].Type = MessageTypeTask
                      /\ log[i].FromAgentID = log[j].ToAgentID
                      /\ log[i].ToAgentID = log[j].FromAgentID
                /\ \E n \in DOMAIN sendLog.completed : sendLog.completed[n] = orig)
    /\ [][Len(LogIDs') > Len(LogIDs) /\ Len(LogIDs') \in ResponsePositions' =>
            LET orig == conversations'[TheConversation].Messages[Len(LogIDs')]
                            .Context.original_message_id
            IN  /\ mu = FreeMu
                /\ \A t \in Threads : ~(th[t].pc = "sent" /\ th[t].arg = orig)
                /\ \E n \in DOMAIN sendLog.completed : sendLog.completed[n] = orig
                /\ IsPrefix(conversations[TheConversation].Messages,
                            conversations'[TheConversation].Messages)]_vars

(* C33 witness: the goroutine of delegation m1 had its response ready      *)
(* while the SendMessage that carried m1 still held the lock, and the      *)
(* response is in the log behind m1                                        *)
C33_Witness ==
    /\ Len(LogIDs) = 2
    /\ LogIDs[1] = "m1"
    /\ ResponsePositions = {2}
    /\ conversations[TheConversation].Messages[2].Context.original_message_id = "m1"
    /\ sendLog.completed[1] = "m1"

(* the goroutine of a delegation is ready to respond while the call that   *)
(* carried the delegation still holds e.mu                                 *)
C33_ReadyWhileLocked ==
    \E k \in DOMAIN deleg, t \in Threads :
        /\ deleg[k].pc = "respond"
        /\ th[t].pc = "sent" /\ th[t].arg = deleg[k].msg.ID

----------------------------------------------------------------------------
(* Claims about the task executors, checked under SpecExec *)

(* ExecuteTask returns to its caller in this step *)
ExecReturns == call.mode = "exec" /\ call'.mode = "idle" /\ ~crashed'

(* C26: a tool task naming a tool that is not registered, and a plugin     *)
(* task naming a plugin that is not registered, is a soft failure:         *)
(* ExecuteTask returns a TaskResult and no error, the task ends with       *)
(* Status completed, the output states that the named capability is        *)
(* unavailable, and the agent's memory/context is not modified.            *)
C26_UnknownCapabilityIsSoftFailure ==
    [][ExecReturns =>
         LET t == taskObj[call.i]
             done == taskObj'[call.i]
         IN  /\ (t.Type = TaskTypeTool /\ t.ToolName \notin tools) =>
                  /\ last'.err = "" /\ ~last'.result.isNil
                  /\ last'.result.Output = <<"Tool", t.ToolName, "not available">>
                  /\ done.Status = TaskStatusCompleted
                  /\ done.Output = last'.result.Output
                  /\ agentObj' = agentObj /\ history' = history
             /\ (t.Type = TaskTypePlugin /\ t.PluginName \notin plugins) =>
                  /\ last'.err = "" /\ ~last'.result.isNil
                  /\ last'.result.Output = <<"Plugin", t.PluginName, "not found">>
                  /\ done.Status = TaskStatusCompleted
                  /\ done.Output = last'.result.Output
                  /\ agentObj' = agentObj /\ history' = history]_vars

(* C26 witness: a tool task naming an unregistered tool has returned a     *)
(* result, on an agent whose state is initialised, while a plugin is       *)
(* registered                                                              *)
C26_Witness ==
    /\ TaskReturned /\ last.err = ""
    /\ taskObj[last.task].Type = TaskTypeTool
    /\ taskObj[last.task].ToolName \notin tools
    /\ last.result.Output = <<"Tool", taskObj[last.task].ToolName, "not available">>
    /\ ~agentObj[last.agent].State.MemoryNil
    /\ plugins # {}

(* C27: when a registered plugin's Execute, or a registered tool's Call,   *)
(* returns an error, the task is a hard failure: ExecuteTask returns that  *)
(* error wrapped with context and no TaskResult, the task ends with Status *)
(* failed, and the agent's memory is not updated with the plugin or tool   *)
(* name.                                                                   *)
C27_CapabilityErrorIsHardFailure ==
    [][ExecReturns =>
         LET t == taskObj[call.i]
             done == taskObj'[call.i]
             failures == {e.err : e \in {x \in ExtOutcomes : x.err # ""}}
         IN  /\ (t.Type = TaskTypeTool /\ t.ToolName \in tools) =>
                  \/ /\ last'.err = "" /\ ~last'.result.isNil
                     /\ done.Status = TaskStatusCompleted
                  \/ /\ last'.err \in {"tool call failed: " \o e : e \in failures}
                     /\ last'.result.isNil
                     /\ done.Status = TaskStatusFailed /\ done.Error = last'.err
                     /\ agentObj' = agentObj /\ history' = history
             /\ (t.Type = TaskTypePlugin /\ t.PluginName \in plugins) =>
                  \/ /\ last'.err = "" /\ ~last'.result.isNil
                     /\ done.Status = TaskStatusCompleted
                  \/ /\ last'.err \in {"plugin execution failed: " \o e : e \in failures}
                     /\ last'.result.isNil
                     /\ done.Status = TaskStatusFailed /\ done.Error = last'.err
                     /\ agentObj' = agentObj /\ history' = history]_vars

(* C27 witness: a plugin task failed in a registered plugin's Execute, on  *)
(* an agent whose state is initialised                                     *)
C27_Witness ==
    /\ TaskReturned
    /\ taskObj[last.task].Type = TaskTypePlugin
    /\ taskObj[last.task].PluginName \in plugins
    /\ last.err = "plugin execution failed: backend error"
    /\ ~agentObj[last.agent].State.MemoryNil
    /\ history[last.agent] = <<>>

(* C28: for generate, chat and embed tasks the effective model is          *)
(* task.ModelName when set, else agent.Models[0]; when both are empty the  *)
(* task fails with a no-model-specified error (Status failed) and the      *)
(* inference service is never invoked, so its answer decides nothing;      *)
(* otherwise the TaskResult's ModelUsed equals the effective model.        *)
C28_EffectiveModel ==
    [][ExecReturns =>
         LET t == taskObj[call.i]
             done == taskObj'[call.i]
             a == agentObj[call.agent]
             model == IF t.ModelName # "" THEN t.ModelName
                      ELSE IF Len(a.Models) > 0 THEN a.Models[1] ELSE ""
         IN  t.Type \in {TaskTypeGenerate, TaskTypeChat, TaskTypeEmbed} =>
                 IF model = ""
                 THEN /\ last'.err = "no model specified for " \o t.Type \o " task"
                      /\ last'.result.isNil
                      /\ done.Status = TaskStatusFailed
                 ELSE last'.err = "" =>
                        (~last'.result.isNil /\ last'.result.ModelUsed = model)]_vars

(* C28 witness: a task naming its own model succeeded on an agent that has *)
(* models of its own, with the task's model                                *)
C28_Witness ==
    /\ TaskReturned /\ last.err = ""
    /\ taskObj[last.task].ModelName # ""
    /\ Len(agentObj[last.agent].Models) > 0
    /\ agentObj[last.agent].Models[1] # taskObj[last.task].ModelName
    /\ last.result.ModelUsed = taskObj[last.task].ModelName

(* C29: a generate or chat task fails (Status failed, error returned, no   *)
(* TaskResult) when the inference-service call errors, and also when the   *)
(* call succeeds but no output was produced.                               *)
C29_NoOutputFails ==
    (/\ TaskReturned
     /\ taskObj[last.task].Type \in {TaskTypeGenerate, TaskTypeChat}) =>
        /\ last.err # "" =>
             (last.result.isNil /\ taskObj[last.task].Status = TaskStatusFailed)
        /\ last.err = "" => last.result.Output # <<>>

----------------------------------------------------------------------------
(* Claims about model routing, checked under SpecRoute *)

(* C30: model routing for an agent that has a model whose name contains    *)
(* "code": for every task type, an input that mentions "code", "function"  *)
(* or "programming" in any letter case is routed to a model whose name     *)
(* contains "code", case-insensitively.                                    *)
C30_CodeInputsGetCodeModel ==
    (/\ route.mode = "routed"
     /\ \E i \in DOMAIN route.models : IsCodeModel(route.models[i])
     /\ MentionsCode(route.input)) => IsCodeModel(route.result)

(* C30, for generate tasks only: there the code model is chosen *)
C30_GenerateOnly ==
    (/\ route.mode = "routed"
     /\ route.taskType = TaskTypeGenerate
     /\ \E i \in DOMAIN route.models : IsCodeModel(route.models[i])
     /\ MentionsCode(route.input)) => IsCodeModel(route.result)

(* C31: model routing for a chat task whose input matches no code keyword: *)
(* if the agent has any configured model whose name does not contain       *)
(* "code", such a model is selected; if none exists, the agent's           *)
(* configured default_model is selected when it is among its models, else  *)
(* the first configured model.                                             *)
C31_ChatPrefersGeneralModel ==
    (/\ route.mode = "routed"
     /\ route.taskType = TaskTypeChat
     /\ ~MentionsCode(route.input)
     /\ Len(route.models) > 0) =>
        LET all == {route.models[i] : i \in DOMAIN route.models}
        IN  IF \E m \in all : ~IsCodeModel(m)
            THEN route.result \in all /\ ~IsCodeModel(route.result)
            ELSE IF route.config.ok /\ route.config.default_model \in all
            THEN route.result = route.config.default_model
            ELSE route.result = route.models[1]

(* C31, for agents whose models that are not code models all have "llama"  *)
(* in their names: there the rule holds                                    *)
C31_LlamaOnly ==
    (/\ route.mode = "routed"
     /\ \A i \in DOMAIN route.models :
           IsCodeModel(route.models[i]) \/ IsLlamaModel(route.models[i]))
        => C31_ChatPrefersGeneralModel

----------------------------------------------------------------------------
(* Claims about workflows, checked under SpecFlow *)

(* The pieces of the texts, one text after the other *)
RECURSIVE Concat(_)
Concat(texts) == IF texts = <<>> THEN <<>> ELSE Head(texts) \o Concat(Tail(texts))

(* The earlier steps, among the first i, that the piece refers to by       *)
(* position or by name                                                     *)
RefersTo(piece, i) ==
    {k \in 1..i : piece \in {Placeholder(StepKey(k)), Placeholder(flow.steps[k].Name)}}

(* The template with every reference to one of the first i steps replaced  *)
(* by that step's output, and every other piece left as it is              *)
Substituted(template, i) ==
    Concat([n \in DOMAIN template |->
              IF RefersTo(template[n], i) = {} THEN <<template[n]>>
              ELSE flow.result.Steps[CHOOSE k \in RefersTo(template[n], i) : TRUE].Output])

(* A step of the workflow is executed in this step of the engine *)
StepExecuted == flow.mode = "running" /\ Len(taskObj') = Len(taskObj) + 1

(* C24: in MultiStepWorkflow, before step i executes, every occurrence of  *)
(* {{stepK}} (K < i, 1-based) and of {{name}} (the name of an earlier      *)
(* step) in its input template is replaced verbatim by that earlier step's *)
(* output; placeholders of steps that have not run yet are left as they    *)
(* are.                                                                    *)
C24_PlaceholdersReplacedVerbatim ==
    [][StepExecuted =>
         taskObj'[Len(taskObj')].Input =
             Substituted(flow.steps[flow.i + 1].Input, flow.i)]_vars

(* C38: placeholder substitution in a workflow step is deterministic: the  *)
(* input produced by replacePlaceholders for a given template and a given  *)
(* mapping of earlier outputs is the same whatever order the mapping's     *)
(* keys are processed in, also when an earlier step's output itself        *)
(* contains text of the form {{key}}.                                      *)
C38_SubstitutionIgnoresKeyOrder ==
    flow.mode = "running" =>
        \A o1, o2 \in KeyOrders(MapKeys(flow.context)) :
            replacePlaceholders(flow.steps[flow.i + 1].Input, flow.context, o1)
                = replacePlaceholders(flow.steps[flow.i + 1].Input, flow.context, o2)

(* C38, for mappings whose outputs contain no placeholder of the mapping:  *)
(* there the order of the keys makes no difference                         *)
C38_PlainOutputs ==
    (/\ flow.mode = "running"
     /\ \A k1, k2 \in MapKeys(flow.context) :
           \A n \in DOMAIN MapGet(flow.context, k1) :
               MapGet(flow.context, k1)[n] # Placeholder(k2))
        => C38_SubstitutionIgnoresKeyOrder

(* C25: when step i of a MultiStepWorkflow fails, the workflow aborts: no  *)
(* step after i is executed, the result has Success false and an Error     *)
(* naming the failed step by its 1-based index, the results of the steps   *)
(* before i are kept, and the entries of step i and of the not-yet-run     *)
(* steps carry no output.                                                  *)
C25_FailedStepAbortsWorkflow ==
    /\ [][(StepExecuted /\ taskObj'[Len(taskObj')].Status = TaskStatusFailed) =>
            LET i == flow.i
                res == flow'.result
            IN  /\ flow'.mode = "returned"
                /\ ~res.isNil /\ ~res.Success
                /\ res.Error = "Step " \o NumStr[i + 2] \o " failed: "
                                 \o taskObj'[Len(taskObj')].Error
                /\ Len(res.Steps) = Len(flow.steps)
                /\ \A k \in 1..i :
                     res.Steps[k] = flow.result.Steps[k] /\ res.Steps[k].Success
                /\ \A k \in (i + 1)..Len(flow.steps) :
                     res.Steps[k].Output = <<>> /\ ~res.Steps[k].Success]_vars
    /\ [][flow.mode = "returned" =>
            (flow'.result = flow.result \/ steps' = steps + 1)]_vars
    /\ [][Len(taskObj') # Len(taskObj) => StepExecuted]_vars

(* C25 witness: the second of three steps failed after the first had       *)
(* produced an output                                                      *)
C25_Witness ==
    /\ flow.mode = "returned"
    /\ ~flow.result.isNil /\ ~flow.result.Success
    /\ Len(flow.steps) = 3 /\ flow.i = 1
    /\ flow.result.Steps[1].Output # <<>>
    /\ flow.result.Steps[2] = ZeroStepResult
    /\ flow.result.Steps[3] = ZeroStepResult
    /\ flow.result.Error = "Step 2 failed: backend error"

----------------------------------------------------------------------------
(* Claims about conversation workflows, checked under SpecCW *)

(* The conversations the engine stores *)
StoredConversations == {id \in IDs : conversations[id].exists}

(* An ExecuteConversationWorkflow call got past StartConversation *)
WorkflowStarted == cw.mode \in {"running", "returned"} /\ ~cw.result.isNil

(* C32: ExecuteConversationWorkflow starts exactly one conversation for    *)
(* the whole workflow and sends the steps' messages one by one in step     *)
(* order; on the first SendMessage failure it aborts, so no message of a   *)
(* later step is sent, the result has Success false with an error naming   *)
(* the failed step, and the number of insight lines equals the number of   *)
(* steps completed before the failure.                                     *)
C32_ConversationWorkflowAbortsOnFailure ==
    /\ [][StoredConversations' # StoredConversations =>
            /\ cw.mode # "running" /\ cw'.mode \in {"running", "returned"}
            /\ ~cw'.result.isNil
            /\ StoredConversations' = StoredConversations \cup {cw'.conv}
            /\ cw'.conv \notin StoredConversations
            /\ conversations'[cw'.conv].Messages = <<>>]_vars
    /\ [][(cw' # cw /\ cw.mode # "running" /\ cw'.mode \in {"running", "returned"}
             /\ ~cw'.result.isNil) =>
            StoredConversations' # StoredConversations]_vars
    /\ [](WorkflowStarted =>
            LET log == conversations[cw.conv].Messages
            IN  /\ Len(log) = cw.i
                /\ Len(cw.result.Insights) = cw.i
                /\ \A k \in 1..cw.i :
                     /\ log[k].FromAgentID = cw.workflow.Steps[k].FromAgentID
                     /\ log[k].ToAgentID = cw.workflow.Steps[k].ToAgentID
                     /\ log[k] = cw.result.StepResults[k].Message
                     /\ cw.result.StepResults[k].StepID = cw.workflow.Steps[k].ID
                /\ (cw.mode = "returned" /\ cw.result.Success) =>
                     cw.i = Len(cw.workflow.Steps)
                /\ cw.mode = "running" => cw.result.Success)
    /\ [][(cw.mode = "running" /\ cw'.mode = "returned" /\ ~cw'.result.Success) =>
            LET step == cw.workflow.Steps[cw.i + 1]
                c == conversations[cw.conv]
                err == IF c.Status # ConversationStatusActive
                       THEN "conversation is not active: " \o c.Status
                       ELSE "sender agent not found: " \o step.FromAgentID
            IN  /\ cw'.result.Error = "Step " \o NumStr[cw.i + 2] \o " failed: " \o err
                /\ cw'.i = cw.i
                /\ cw'.result.Insights = cw.result.Insights
                /\ conversations'[cw.conv].Messages = c.Messages]_vars
    /\ [][(WorkflowStarted /\ cw.mode = "returned" /\ cw'.conv = cw.conv) =>
            conversations'[cw.conv].Messages = conversations[cw.conv].Messages]_vars

(* C32 witness: the second of three steps could not be sent after the      *)
(* first had been                                                          *)
C32_Witness ==
    /\ cw.mode = "returned"
    /\ ~cw.result.isNil /\ ~cw.result.Success
    /\ Len(cw.workflow.Steps) = 3 /\ cw.i = 1
    /\ Len(cw.result.Insights) = 1
    /\ Len(conversations[cw.conv].Messages) = 1
    /\ cw.result.Error = "Step 2 failed: sender agent not found: ghost"

----------------------------------------------------------------------------
(* Claims about the delegation follow-up, checked under SpecConvLive *)

(* The positions of the log that hold a response to the message with this  *)
(* ID, and those that hold a task-delegation message with this ID          *)
ResponsesTo(log, id) ==
    {j \in DOMAIN log : /\ log[j].Type = MessageTypeResponse
                        /\ log[j].Context.original_message_id = id}

DelegationsOf(log, id) ==
    {i \in DOMAIN log : log[i].Type = MessageTypeTask /\ log[i].ID = id}

(* The messages the engine generated, and the task-delegation messages *)
EngineGenerated(log) == {j \in DOMAIN log : log[j].Type = MessageTypeResponse}
TaskDelegations(log) == {i \in DOMAIN log : log[i].Type = MessageTypeTask}

(* The goroutine of delegation k sends its response in this step *)
ResponseStep(k) ==
    k \in DOMAIN deleg /\ deleg[k].pc = "respond" /\ deleg'[k].pc = "done"

Quiescent == \A k \in DOMAIN deleg : deleg[k].pc = "done"

(* C34: each task-delegation message causes at most one delegated task     *)
(* execution and at most one response message, and a response message      *)
(* never triggers a further task: after any finite number of SendMessage   *)
(* calls by callers, the number of engine-generated messages in a          *)
(* conversation is at most the number of task-delegation messages in it,   *)
(* so the delegation follow-up always quiesces.                            *)
C34_DelegationQuiesces ==
    /\ [](\A id \in IDs :
            LET log == conversations[id].Messages
            IN  /\ Cardinality(EngineGenerated(log)) <= Cardinality(TaskDelegations(log))
                /\ \A j \in EngineGenerated(log) :
                     LET orig == log[j].Context.original_message_id
                     IN  Cardinality(ResponsesTo(log, orig))
                             <= Cardinality(DelegationsOf(log, orig)))
    /\ [](\A k \in DOMAIN deleg : execCount[deleg[k].task] <= 1)
    /\ [](\A k, j \in DOMAIN deleg : deleg[k].task = deleg[j].task => k = j)
    /\ [][\A k \in 1..Len(deleg) :
            ResponseStep(k) =>
                /\ Len(deleg') = Len(deleg)
                /\ Len(taskObj') = Len(taskObj)
                /\ Len(conversations'[deleg[k].conv].Messages)
                       <= Len(conversations[deleg[k].conv].Messages) + 1]_vars
    /\ []<>Quiescent

(* C34 witness: two delegations were sent, each task ran once and each was *)
(* answered once, and no goroutine is left running                         *)
C34_Witness ==
    /\ Len(deleg) = 2
    /\ Quiescent
    /\ \A k \in DOMAIN deleg : execCount[deleg[k].task] = 1
    /\ \E id \in IDs :
         /\ Cardinality(TaskDelegations(conversations[id].Messages)) = 2
         /\ Cardinality(EngineGenerated(conversations[id].Messages)) = 2

----------------------------------------------------------------------------
(* Claims about the engine lock, checked under SpecMu *)

(* Some thread can take a step that takes or releases e.mu *)
LockMoves ==
    \/ \E t \in Threads :
         /\ th[t].pc = "wait"
         /\ IF ReadLocked(th[t].op) THEN mu.writer = NoThread ELSE LockGranted(mu)
    \/ \E t \in Threads : th[t].pc = "in" /\ NestedLocks(th[t].op) = {}

(* The lock is never requested by its holder, it is released on return,    *)
(* and whenever a thread waits for it, a step that takes or releases it is *)
(* possible                                                                *)
LockDiscipline ==
    /\ \A t \in Threads : ~(RequestsMu(t) /\ HoldsMu(t))
    /\ \A t \in Threads : th[t].pc = "idle" => ~HoldsMu(t)
    /\ \A t \in Threads : HoldsMu(t) => th[t].pc = "in"
    /\ mu.writer # NoThread => mu.readers = {}
    /\ (\E t \in Threads : th[t].pc = "wait") => LockMoves

(* C35: the engine lock is never requested by a thread that already holds  *)
(* it and is always released on return: with any number of concurrent      *)
(* StartConversation, SendMessage (including task-delegation messages and  *)
(* their detached follow-ups), CloseConversation and agent CRUD calls, no  *)
(* deadlock is reachable and, under fair scheduling, every call eventually *)
(* returns.                                                                *)
C35_EveryCallReturns ==
    /\ []LockDiscipline
    /\ \A t \in Threads : (th[t].pc # "idle") ~> (th[t].pc = "idle")

(* C35, as long as the process lives: the lock is handled as claimed, and  *)
(* every call returns unless the runtime has ended the process             *)
C35_ReturnsWhileAlive ==
    /\ []LockDiscipline
    /\ \A t \in Threads : (th[t].pc # "idle") ~> (th[t].pc = "idle" \/ crashed)

(* a call waited for the lock while another thread held it *)
C35_Contended ==
    \E t, u \in Threads : th[t].pc = "wait" /\ mu.writer = u /\ th[u].pc = "in"

----------------------------------------------------------------------------
(* Claims about concurrent state updates, checked under SpecTasks *)

(* The tasks of the call that record agent state: the custom ones among    *)
(* TaskListTasks                                                           *)
StateRecordingTasks == {k \in 1..call.n : taskObj[k].Type = TaskTypeCustom}

(* C36: updates of one agent's State are atomic with respect to each       *)
(* other: when n state-recording tasks run on the same agent through       *)
(* concurrent ExecuteTasks, no update is lost or torn, so starting from an *)
(* empty Context the agent ends with exactly min(n, 10) context items, one *)
(* per executed update.                                                    *)
C36_StateUpdatesAreAtomic ==
    (ConcReturned /\ ~crashed) =>
        LET n == Cardinality(StateRecordingTasks)
            ctx == agentObj[call.agent].State.Context
        IN  /\ Len(ctx) = (IF n > ContextLimit THEN ContextLimit ELSE n)
            /\ Len(history[call.agent]) = n

(* C36, for sequential ExecuteTasks: there one update follows the other    *)
(* and none is lost                                                        *)
C36_SequentialUpdates ==
    (SeqReturned /\ ~crashed) =>
        Len(agentObj[call.agent].State.Context) = Len(history[call.agent])

----------------------------------------------------------------------------
(* Claims about the senders of messages, checked under SpecConvNarrow *)

(* The members of a sequence *)
Members(seq) == {seq[i] : i \in DOMAIN seq}

(* The log of conversation id grows by one message in this step *)
Appended(id) ==
    Len(conversations'[id].Messages) = Len(conversations[id].Messages) + 1

Newest(id) == conversations'[id].Messages[Len(conversations'[id].Messages)]

(* C37: every message in a Conversation's log was sent by an agent that is *)
(* one of that conversation's participants and that existed in the Agent   *)
(* Store at the moment the message was appended.                           *)
C37_SendersAreStoredParticipants ==
    [][\A id \in IDs :
         Appended(id) =>
             /\ Newest(id).FromAgentID \in Members(conversations[id].Participants)
             /\ Exists(Newest(id).FromAgentID)]_vars

(* C37, without the participants: the sender of an appended message is in  *)
(* the Agent Store when the message is appended                            *)
C37_SendersAreStored ==
    [][\A id \in IDs : Appended(id) => Exists(Newest(id).FromAgentID)]_vars
----------------------------------------------------------------------------
(* Claims about orchestration requests, checked under SpecOrch *)

(* The IDs e.tasks holds a task for *)
StoredTaskIDs == {id \in IDs : tasks[id] # 0}

(* The OrchestrateTasks call returned a response *)
OrchestrationReturned == orch.mode = "returned" /\ ~orch.response.isNil

(* The positions of the failed tasks of the response *)
FailedIn(r) == {k \in DOMAIN r.Tasks : r.Tasks[k].Status = TaskStatusFailed}

C40_UnknownAgentSeen ==
    /\ orch.mode = "returned" /\ orch.response.isNil
    /\ orch.err = "failed to get agent: agent not found: ghost"
    /\ StoredTaskIDs = {}

====
